---- MODULE Spec2Model ----
(***************************************************************************)
(* A model of 2b2proxy: the upstream sessions (class Connection), the      *)
(* bridge that attaches a downstream game client to a session              *)
(* (Connection.proxy), the downstream listener's /connect command          *)
(* (createServer) and the session table (connect / disconnect).            *)
(*                                                                         *)
(* The program runs on one Node.js event loop.  An action of the model is  *)
(* one run-to-completion step of that loop: an event handler together with *)
(* the promise continuations it releases, up to the next await on I/O.     *)
(***************************************************************************)
EXTENDS Integers, Sequences, FiniteSets, TLC

\* ---------------------------------------------------------------- bounds
\* The bridge under traffic (Spec, FairSpec).
NumSessions == 1
NumDowns == 1
MaxCalls == 1
ReplayLen == 2
MaxUp == 1
MaxDownPkts == 1
\* Attaching and detaching alone (AttachSpec).
NumAttachSessions == 2
NumAttachDowns == 3
MaxAttachCalls == 4
\* Attaching and detaching while the gamemode changes (GamemodeSpec).
NumGamemodeDowns == 2
MaxGamemodeCalls == 3
\* Management commands of attached downstreams (CommandSpec).
NumCommandDowns == 1
MaxCommandCalls == 2

\* The health gate (HealthSpec): health values and thresholds 0..MaxHealth.
MaxHealth == 2
MaxHealthPkts == 2

\* The rewriter (RewriteSpec): bytes after the rewritten field, metadata entries
\* and passengers of a packet.
MaxRestLen == 1
MaxEntries == 1

\* The mirror (ReplaySpec): upstream packets applied before the replay.
MaxTrack == 4

\* The mirror's invariants (MirrorSpec): packets applied, both directions.
MaxMirror == 5

\* Block changes (BlockSpec): packets applied.
MaxBlockPkts == 4

\* The chat log (ChatSpec): chat messages received.
MaxChat == 113

\* The session table (MgrSpec, MgrFairSpec).
NumProfiles == 1
MaxConnects == 2
MaxDisconnects == 1

\* connection.ts:217  conn: ServerConnection | null = null
NoConn == 0
\* server.ts:62  let unproxyLastConnection (undefined until a proxy() returned)
NoCall == 0
\* connection.ts:175  eid = -1
NoEid == -1
\* the eid a JoinGame of the upstream carries
SelfEid == 1
\* connection.ts:12  connections.has(profile.id) is false
NoConnection == 0
\* server.ts:37  const eid = 9999999
ClientEid == 9999999

VARIABLES
  conn,         \* Connection.conn of each session: a downstream or NoConn
  eid,          \* Connection.eid: NoEid until the JoinGame was tracked
  gamemode,     \* Connection.gamemode
  upEnded,      \* the session's client has emitted "end"
  upSeq,        \* number of play packets received from the upstreams so far
  callS,        \* per proxy() invocation: the session it was called on
  callD,        \* per proxy() invocation: the downstream passed as conn
  pc,           \* per proxy() invocation: where the async function stands
  idx,          \* per proxy() invocation: replay packets sent so far
  missed,       \* per proxy() invocation: upstream packets that arrived during its replay
  unproxyLast,  \* per downstream: server.ts unproxyLastConnection
  down,         \* per downstream: socket state
  downSeq,      \* number of serverbound play packets sent by the downstreams so far
  out,          \* per downstream: the packets written to it, in order
  toUp,         \* per session: the packets written to the upstream, in order
  connections,  \* the session table: profile id -> Connection object
  autoReconnect,       \* per profile: settings.autoReconnect.enabled
  timers,              \* per profile: pending setTimeout(connect) callbacks
  cProfile,            \* per Connection object: its profile
  aw,                  \* per Connection object: where its connect() call stands
  sock,                \* per Connection object: its client's socket
  userHasDisconnected, \* per Connection object: Connection.userHasDisconnected
  failed,       \* per Connection object: what made its connect() fail, if anything
  awaited,      \* per profile: a session end that calls for a reconnect has happened
  op,           \* the last call of connect() or disconnect(), numbered
  nDisc,        \* number of disconnect() calls so far
  health,            \* Connection.health
  healthInitialized, \* Connection.healthInitialized
  disconnectReason,  \* Connection.disconnectReason
  upEnding,          \* the session has called client.end(); "end" is still to come
  autoDisconnect,    \* per session: profile.settings.autoDisconnect
  nHealth,           \* per session: UpdateHealth packets received so far
  fin,          \* the arguments of the function under study
  fout,         \* the values it returned so far, in order
  login,        \* per downstream: where its server.ts connection handler stands
  store         \* data.profiles and the profiles the users own

bridgeVars == <<conn, eid, gamemode, upEnded, upSeq, callS, callD, pc, idx, missed,
                unproxyLast, down, downSeq, out, toUp>>

mgrVars == <<connections, autoReconnect, timers, cProfile, aw, sock,
             userHasDisconnected, failed, awaited, op, nDisc>>

trackVars == <<health, healthInitialized, disconnectReason, upEnding, autoDisconnect, nHealth>>

pureVars == <<fin, fout>>

loginVars == <<login, store>>

vars == <<bridgeVars, mgrVars, trackVars, pureVars, loginVars>>

\* The sessions, downstreams and proxy() invocations of the behaviour at hand
\* (Init fixes them as the domains of conn, down and pc).
Sessions == DOMAIN conn
Downs == DOMAIN down
Calls == DOMAIN pc

\* ------------------------------------------------------------ Connection

\* The lowest unused invocation record.
FreeCall == CHOOSE c \in Calls : pc[c] = "free" /\ \A c2 \in Calls : c2 < c => pc[c2] # "free"

HasFreeCall == \E c \in Calls : pc[c] = "free"

\* Downstream d has sent a /connect that reached proxy().
Active(d) == \E c \in Calls : pc[c] # "free" /\ callD[c] = d

\* Session s has seen an event.
Touched(s) == eid[s] # NoEid \/ upEnded[s] \/ \E c \in Calls : pc[c] # "free" /\ callS[c] = s

\* Sessions and downstreams are interchangeable until they act: they start to act
\* in the order of their numbers.
InOrderS(s) == \A s2 \in Sessions : s2 < s => Touched(s2)

InOrderD(d) == \A d2 \in Downs : d2 < d => Active(d2)

\* conn.send(packet): the packet reaches the downstream only while its socket is open.
Send(o, d, pkt) == IF down[d] = "open" THEN [o EXCEPT ![d] = Append(@, pkt)] ELSE o

\* A bridge that registers clientboundListener before the replay loop.
ClientboundListeningEarly(c) == pc[c] \in {"replay", "live"}

\* proxy(): clientboundListener is registered (after the replay loop).
ClientboundListening(c) == pc[c] = "live"

\* proxy(): serverboundListener is registered.
ServerboundListening(c) == pc[c] = "live"

\* proxy(): endListener is registered on the session's client.
EndListening(c) == pc[c] = "live"

\* A bridge whose unproxy() leaves gamemodeEffect running.
GamemodeEffectNeverStopped(c) == pc[c] \in {"live", "detached"}

\* proxy(): gamemodeEffect is active.
GamemodeEffectActive(c) == pc[c] = "live"

\* proxy(): conn.on("end", unproxy) is registered on the downstream; the closure
\* is never removed from it.
UnproxyRegistered(c) == pc[c] \in {"live", "detached"}

\* The calls of a set, in ascending order.
RECURSIVE SeqOf(_)
SeqOf(S) == IF S = {} THEN <<>>
            ELSE LET m == CHOOSE x \in S : \A y \in S : x <= y
                 IN <<m>> \o SeqOf(S \ {m})

\* Every listener of `cs` (a sequence of calls) sends its packet to its downstream.
RECURSIVE SendAll(_, _, _, _)
SendAll(o, cs, kind, n) ==
  IF cs = <<>> THEN o
  ELSE SendAll(Send(o, callD[Head(cs)], <<Head(cs), kind, n>>), Tail(cs), kind, n)

\* unproxy(): stop the effect, dispose the three listeners, conn = null.
UnproxyPc(p, c) == IF p[c] = "live" THEN [p EXCEPT ![c] = "detached"] ELSE p

UnproxyConn(cn, c) == [cn EXCEPT ![callS[c]] = NoConn]

\* Connection.proxy(conn = d) on session s, as invocation c, from the state in
\* which conn is cn and the invocations stand at p.
Proxy(c, s, d, cn, p) ==
  /\ callS' = [callS EXCEPT ![c] = s]
  /\ callD' = [callD EXCEPT ![c] = d]
  /\ IF cn[s] # NoConn
     THEN \* throw new Error("Already proxied")
          /\ pc' = [p EXCEPT ![c] = "threw"]
          /\ conn' = cn
          /\ UNCHANGED <<idx, out>>
     ELSE /\ conn' = [cn EXCEPT ![s] = d]
          /\ IF eid[s] = NoEid
             THEN \* await this.client.nextPacket(0x23, false)
                  /\ pc' = [p EXCEPT ![c] = "waitJoin"]
                  /\ UNCHANGED <<idx, out>>
             ELSE /\ pc' = [p EXCEPT ![c] = "replay"]
                  /\ idx' = [idx EXCEPT ![c] = 1]
                  /\ out' = Send(out, d, <<c, "replay", 1>>)

\* The replay loop resumes after `await conn.send(...)` and sends the next packet.
\* On a downstream whose socket is no longer open the pending send may reject,
\* which makes proxy() throw out of the loop.
ReplayStep(c) ==
  /\ pc[c] = "replay"
  /\ idx[c] < ReplayLen
  /\ \/ /\ idx' = [idx EXCEPT ![c] = @ + 1]
        /\ out' = Send(out, callD[c], <<c, "replay", idx[c] + 1>>)
        /\ UNCHANGED pc
     \/ /\ down[callD[c]] # "open"
        /\ pc' = [pc EXCEPT ![c] = "failed"]
        /\ UNCHANGED <<idx, out>>
  /\ UNCHANGED <<conn, eid, gamemode, upEnded, upSeq, callS, callD, missed,
                 unproxyLast, down, downSeq, toUp, mgrVars, trackVars, pureVars, loginVars>>

\* The last replay send resolved: gamemodeEffect runs once, the listeners and the
\* downstream's "end" hook are registered, proxy() returns unproxy and the chat
\* handler stores it in unproxyLastConnection.
GoLive(c) ==
  /\ pc[c] = "replay"
  /\ idx[c] = ReplayLen
  /\ \/ /\ pc' = [pc EXCEPT ![c] = "live"]
        /\ out' = Send(out, callD[c], <<c, "gamemode", gamemode[callS[c]]>>)
        /\ unproxyLast' = [unproxyLast EXCEPT ![callD[c]] = c]
     \/ /\ down[callD[c]] # "open"
        /\ pc' = [pc EXCEPT ![c] = "failed"]
        /\ UNCHANGED <<out, unproxyLast>>
  /\ UNCHANGED <<conn, eid, gamemode, upEnded, upSeq, callS, callD, idx, missed,
                 down, downSeq, toUp, mgrVars, trackVars, pureVars, loginVars>>

\* The calls of the set S that were made on session s, in ascending order.
CallsOn(s, S) == SeqOf({c \in S : pc[c] # "free" /\ callS[c] = s})

\* The calls whose clientboundListener is registered.
ClientboundListeners == {c \in Calls : ClientboundListening(c)}

\* The calls whose gamemodeEffect is active.
GamemodeEffects == {c \in Calls : GamemodeEffectActive(c)}

\* The upstream's JoinGame (0x23) arrives: track() records the eid; every proxy()
\* waiting in nextPacket(0x23) resumes and starts its replay; the packet is
\* forwarded by the clientbound listeners.
UpJoin(s) ==
  /\ ~upEnded[s]
  /\ InOrderS(s)
  /\ eid[s] = NoEid
  /\ eid' = [eid EXCEPT ![s] = SelfEid]
  /\ LET W == {c \in Calls : pc[c] = "waitJoin" /\ callS[c] = s}
         o1 == SendAll(out, CallsOn(s, ClientboundListeners), "live", 0)
     IN /\ pc' = [c \in Calls |-> IF c \in W THEN "replay" ELSE pc[c]]
        /\ idx' = [c \in Calls |-> IF c \in W THEN 1 ELSE idx[c]]
        /\ out' = SendAll(o1, SeqOf(W), "replay", 1)
  /\ UNCHANGED <<conn, gamemode, upEnded, upSeq, callS, callD, missed,
                 unproxyLast, down, downSeq, toUp, mgrVars, trackVars, pureVars, loginVars>>

Replaying(s) == {c \in Calls : pc[c] = "replay" /\ callS[c] = s}

\* Some proxy() on s is replaying or listening: a packet that arrives while nobody
\* is attaching or attached only updates the mirror.
Attaching(s) == \E c \in Calls : callS[c] = s /\ pc[c] \in {"replay", "live"}

\* A play packet that the mirror does not keep (a chat line, a sound, ...) arrives.
UpPacket(s) ==
  /\ ~upEnded[s]
  /\ eid[s] # NoEid
  /\ upSeq < MaxUp
  /\ Attaching(s)
  /\ upSeq' = upSeq + 1
  /\ out' = SendAll(out, CallsOn(s, ClientboundListeners), "live", upSeq + 1)
  /\ missed' = [c \in Calls |-> IF c \in Replaying(s) THEN missed[c] \cup {upSeq + 1}
                                ELSE missed[c]]
  /\ UNCHANGED <<conn, eid, gamemode, upEnded, callS, callD, pc, idx,
                 unproxyLast, down, downSeq, toUp, mgrVars, trackVars, pureVars, loginVars>>

\* ChangeGameState reason 3 arrives: track() sets gamemode, which re-runs every
\* active gamemodeEffect; the packet itself is forwarded like any other.
UpGamemode(s) ==
  /\ ~upEnded[s]
  /\ eid[s] # NoEid
  /\ upSeq < MaxUp
  /\ Attaching(s)
  /\ upSeq' = upSeq + 1
  /\ gamemode' = [gamemode EXCEPT ![s] = 1 - @]
  /\ LET o1 == SendAll(out, CallsOn(s, GamemodeEffects), "gamemode", 1 - gamemode[s])
     IN out' = SendAll(o1, CallsOn(s, ClientboundListeners), "live", upSeq + 1)
  /\ missed' = [c \in Calls |-> IF c \in Replaying(s) THEN missed[c] \cup {upSeq + 1}
                                ELSE missed[c]]
  /\ UNCHANGED <<conn, eid, upEnded, callS, callD, pc, idx,
                 unproxyLast, down, downSeq, toUp, mgrVars, trackVars, pureVars, loginVars>>

\* The session's client emits "end": every endListener calls conn.end() on its
\* downstream, every pending nextPacket(0x23) rejects.
UpEnd(s) ==
  /\ ~upEnded[s]
  /\ InOrderS(s)
  /\ upEnded' = [upEnded EXCEPT ![s] = TRUE]
  /\ down' = [d \in Downs |->
               IF down[d] = "open" /\ \E c \in Calls : callS[c] = s /\ callD[c] = d /\ EndListening(c)
               THEN "ending" ELSE down[d]]
  /\ pc' = [c \in Calls |-> IF pc[c] = "waitJoin" /\ callS[c] = s THEN "failed" ELSE pc[c]]
  /\ UNCHANGED <<conn, eid, gamemode, upSeq, callS, callD, idx, missed,
                 unproxyLast, downSeq, out, toUp, mgrVars, trackVars, pureVars, loginVars>>

\* ------------------------------------------------------ downstream listener

\* Running unproxy() of every call in the sequence cs.
RECURSIVE UnproxyAllPc(_, _)
UnproxyAllPc(p, cs) == IF cs = <<>> THEN p ELSE UnproxyAllPc(UnproxyPc(p, Head(cs)), Tail(cs))

RECURSIVE UnproxyAllConn(_, _)
UnproxyAllConn(cn, cs) ==
  IF cs = <<>> THEN cn ELSE UnproxyAllConn(UnproxyConn(cn, Head(cs)), Tail(cs))

\* The unproxy closures registered on downstream d's "end" event.
EndHooks(d) == SeqOf({c \in Calls : pc[c] # "free" /\ callD[c] = d /\ UnproxyRegistered(c)})

\* The chat handler of server.ts for "/connect <profile of s>" sent by d, the
\* session being in the table.
ChatConnect(d, s) ==
  /\ down[d] = "open"
  /\ ~upEnded[s]
  /\ InOrderD(d) /\ InOrderS(s)
  /\ HasFreeCall
  /\ conn[s] = NoConn          \* otherwise: "Already connected", nothing changes
  /\ LET u == unproxyLast[d]
         cn == IF u # NoCall THEN UnproxyConn(conn, u) ELSE conn
         p == IF u # NoCall THEN UnproxyPc(pc, u) ELSE pc
     IN Proxy(FreeCall, s, d, cn, p)
  /\ UNCHANGED <<eid, gamemode, upEnded, upSeq, missed, unproxyLast, down, downSeq, toUp, mgrVars, trackVars, pureVars, loginVars>>

\* A serverboundListener that forwards everything.
ServerboundDropsNothing(k) == FALSE

\* serverboundListener: packet.id == 0x0 || packet.id == 0xb
ServerboundDrops(k) == k \in {"TeleportConfirm", "KeepAlive"}

\* The serverboundListeners registered on downstream d for session s, in the
\* order of their registration.
ServerboundListeners(s, d) ==
  SeqOf({c \in Calls : pc[c] # "free" /\ callD[c] = d /\ callS[c] = s /\ ServerboundListening(c)})

\* Downstream d emits its n-th "packet", of kind k: every serverboundListener on
\* it returns at once for a TeleportConfirm or a KeepAlive and sends any other
\* packet to its session's upstream.
ServerboundForward(tu, d, k, n) ==
  [s \in Sessions |->
     IF ServerboundDrops(k) THEN tu[s]
     ELSE tu[s] \o [i \in 1..Len(ServerboundListeners(s, d)) |->
                      <<ServerboundListeners(s, d)[i], k, n>>]]

\* The downstream sends a play packet of kind k.
DownSends(d, k) ==
  /\ down[d] = "open"
  /\ downSeq < MaxDownPkts
  /\ Active(d)
  /\ downSeq' = downSeq + 1
  /\ toUp' = ServerboundForward(toUp, d, k, downSeq + 1)
  /\ UNCHANGED <<conn, eid, gamemode, upEnded, upSeq, callS, callD, pc, idx, missed,
                 unproxyLast, down, out, mgrVars, trackVars>>

\* The downstream sends a play packet that is neither TeleportConfirm nor
\* KeepAlive.
DownPacket(d) == DownSends(d, "Other") /\ UNCHANGED <<pureVars, loginVars>>

\* The chat handler of server.ts for "/connect <profile of s>" sent by d while
\* the session has a conn: the handler answers "Already connected" and returns.
\* The chat packet is a "packet" event of d like any other: every
\* serverboundListener registered on d receives it.
ChatConnectRefused(d, s) ==
  /\ ~upEnded[s]
  /\ conn[s] # NoConn
  /\ DownSends(d, "ConnectCommand")
  /\ UNCHANGED <<pureVars, loginVars>>

\* The downstream's socket has closed: it emits "end" and every unproxy
\* registered on it runs.
DownEnd(d) ==
  /\ down' = [down EXCEPT ![d] = "ended"]
  /\ pc' = UnproxyAllPc(pc, EndHooks(d))
  /\ conn' = UnproxyAllConn(conn, EndHooks(d))
  /\ UNCHANGED <<eid, gamemode, upEnded, upSeq, callS, callD, idx, missed,
                 unproxyLast, downSeq, out, toUp, mgrVars, trackVars, pureVars, loginVars>>

\* The game client leaves.
DownLeaves(d) == down[d] = "open" /\ Active(d) /\ DownEnd(d)

\* The close that conn.end() started completes.
DownCloses(d) == down[d] = "ending" /\ DownEnd(d)

\* ------------------------------------------------------------ the bridge

\* Established sessions SS that have not yet received JoinGame, logged-in
\* downstreams DD, no client attached, CC proxy() invocations to come.
InitWith(SS, DD, CC) ==
  /\ conn = [s \in SS |-> NoConn]
  /\ eid = [s \in SS |-> NoEid]
  /\ gamemode = [s \in SS |-> 0]
  /\ upEnded = [s \in SS |-> FALSE]
  /\ upSeq = 0
  /\ callS = [c \in CC |-> 1]
  /\ callD = [c \in CC |-> 1]
  /\ pc = [c \in CC |-> "free"]
  /\ idx = [c \in CC |-> 0]
  /\ missed = [c \in CC |-> {}]
  /\ unproxyLast = [d \in DD |-> NoCall]
  /\ down = [d \in DD |-> "open"]
  /\ downSeq = 0
  /\ out = [d \in DD |-> <<>>]
  /\ toUp = [s \in SS |-> <<>>]

\* Profiles PP with auto-reconnect enabled (the default setting), no session,
\* OO Connection objects to come.
MgrInitWith(PP, OO) ==
  /\ connections = [p \in PP |-> NoConnection]
  /\ autoReconnect = [p \in PP |-> TRUE]
  /\ timers = [p \in PP |-> 0]
  /\ cProfile = [c \in OO |-> 1]
  /\ aw = [c \in OO |-> "unused"]
  /\ sock = [c \in OO |-> "idle"]
  /\ userHasDisconnected = [c \in OO |-> FALSE]
  /\ failed = [c \in OO |-> "no"]
  /\ awaited = [p \in PP |-> FALSE]
  /\ op = [n |-> 0, kind |-> "none", profile |-> 1, threw |-> FALSE,
            disc |-> [p \in PP |-> FALSE]]
  /\ nDisc = [p \in PP |-> 0]

\* Sessions SS that have received no UpdateHealth and have not been asked to end,
\* auto-disconnect being set to ad.
TrackInitWith(SS, ad) ==
  /\ health = [s \in SS |-> 0]
  /\ healthInitialized = [s \in SS |-> FALSE]
  /\ disconnectReason = [s \in SS |-> "none"]
  /\ upEnding = [s \in SS |-> FALSE]
  /\ autoDisconnect = [s \in SS |-> ad]
  /\ nHealth = [s \in SS |-> 0]

\* part_007: defaultProfileSettings.autoDisconnect
DefaultAutoDisconnect == [enabled |-> TRUE, disableWhilePlaying |-> TRUE, health |-> 5]

\* No function is under study.
NoCallInit == fin = <<>> /\ fout = <<>>

\* No downstream is logging in and the store is empty.
NoLogin == login = <<>> /\ store = [profiles |-> {}, owned |-> {}]

BridgeInitWith(SS, DD, CC) ==
  /\ InitWith(SS, DD, CC)
  /\ MgrInitWith({}, {})
  /\ TrackInitWith(SS, DefaultAutoDisconnect)
  /\ NoLogin
  /\ NoCallInit

Init == BridgeInitWith(1..NumSessions, 1..NumDowns, 1..MaxCalls)

\* What the event loop does by itself: resumed awaits and completing closes.
Internal ==
  \/ \E c \in Calls : ReplayStep(c)
  \/ \E c \in Calls : GoLive(c)
  \/ \E d \in Downs : DownCloses(d)

\* Attaching, detaching and the ends of either side.
Attachment ==
  \/ \E s \in Sessions : UpJoin(s)
  \/ \E s \in Sessions : UpEnd(s)
  \/ \E d \in Downs, s \in Sessions : ChatConnect(d, s)
  \/ \E d \in Downs : DownLeaves(d)

\* Packets in both directions.
Traffic ==
  \/ \E s \in Sessions : UpPacket(s)
  \/ \E s \in Sessions : UpGamemode(s)
  \/ \E d \in Downs : DownPacket(d)

Next == Internal \/ Attachment \/ Traffic

Spec == Init /\ [][Next]_vars

\* Node runs every resumed await and completes every close it started.
FairSpec == Spec /\ WF_vars(Internal)

\* Management commands of attached downstreams.
CommandInit == BridgeInitWith(1..NumAttachSessions, 1..NumCommandDowns, 1..MaxCommandCalls)

CommandNext ==
  \/ Internal
  \/ Attachment
  \/ \E d \in Downs, s \in Sessions : ChatConnectRefused(d, s)

CommandSpec == CommandInit /\ [][CommandNext]_vars

AttachInit == BridgeInitWith(1..NumAttachSessions, 1..NumAttachDowns, 1..MaxAttachCalls)

AttachNext == Internal \/ Attachment

AttachSpec == AttachInit /\ [][AttachNext]_vars

\* Attaching and detaching while the upstreams send packets.
LiveNext == Internal \/ Attachment \/ \E s \in Sessions : UpPacket(s)

LiveSpec == AttachInit /\ [][LiveNext]_vars

\* Attaching and detaching while the upstreams change the gamemode.
GamemodeInit == BridgeInitWith(1..NumAttachSessions, 1..NumGamemodeDowns, 1..MaxGamemodeCalls)

GamemodeNext == Internal \/ Attachment \/ \E s \in Sessions : UpGamemode(s)

GamemodeSpec == GamemodeInit /\ [][GamemodeNext]_vars

\* The sum of f over S.
RECURSIVE SumOver(_, _)
SumOver(f, S) == IF S = {} THEN 0
                 ELSE LET x == CHOOSE y \in S : TRUE IN f[x] + SumOver(f, S \ {x})

\* ------------------------------------------------------------ the health gate

\* A handler that does not wait for the first UpdateHealth.
LowHealthUninitialized(s, h) ==
  /\ autoDisconnect[s].enabled
  /\ ~autoDisconnect[s].disableWhilePlaying \/ conn[s] = NoConn
  /\ h < autoDisconnect[s].health

\* A handler that also fires at the threshold.
LowHealthOrEqual(s, h) ==
  /\ autoDisconnect[s].enabled
  /\ ~autoDisconnect[s].disableWhilePlaying \/ conn[s] = NoConn
  /\ h <= autoDisconnect[s].health
  /\ healthInitialized[s]

\* track(), update health (0x41): the condition under which the session ends itself.
LowHealth(s, h) ==
  /\ autoDisconnect[s].enabled
  /\ ~autoDisconnect[s].disableWhilePlaying \/ conn[s] = NoConn
  /\ h < autoDisconnect[s].health
  /\ healthInitialized[s]

\* UpdateHealth with health h arrives: track() records it and, under LowHealth,
\* sets disconnectReason and calls client.end(); the clientbound listeners forward
\* the packet.
UpHealth(s, h) ==
  /\ ~upEnded[s]
  /\ eid[s] # NoEid
  /\ SumOver(nHealth, Sessions) < MaxHealthPkts
  /\ nHealth' = [nHealth EXCEPT ![s] = @ + 1]
  /\ health' = [health EXCEPT ![s] = h]
  /\ IF LowHealth(s, h)
     THEN /\ disconnectReason' = [disconnectReason EXCEPT ![s] = "Disconnected because of low health"]
          /\ upEnding' = [upEnding EXCEPT ![s] = TRUE]
     ELSE UNCHANGED <<disconnectReason, upEnding>>
  /\ healthInitialized' = [healthInitialized EXCEPT ![s] = TRUE]
  /\ out' = SendAll(out, CallsOn(s, ClientboundListeners), "health", h)
  /\ UNCHANGED <<conn, eid, gamemode, upEnded, upSeq, callS, callD, pc, idx, missed,
                 unproxyLast, down, downSeq, toUp, mgrVars, pureVars, loginVars, autoDisconnect>>

\* The close that client.end() started completes: the client emits "end".
UpCloses(s) == upEnding[s] /\ UpEnd(s)

\* The auto-disconnect settings a profile may have.
AutoDisconnectSettings ==
  [enabled : BOOLEAN, disableWhilePlaying : BOOLEAN, health : 0..MaxHealth]

\* The handler reads and writes the fields of its own Connection and the
\* settings of its profile only: one session, and one downstream to attach.
OneSession == {1}

OneDown == {1}

HealthInit ==
  /\ InitWith(OneSession, OneDown, 1..MaxCalls)
  /\ MgrInitWith({}, {})
  /\ \E ad \in AutoDisconnectSettings : TrackInitWith(OneSession, ad)
  /\ NoLogin
  /\ NoCallInit

HealthNext ==
  \/ Internal
  \/ Attachment
  \/ \E s \in Sessions, h \in 0..MaxHealth : UpHealth(s, h)
  \/ \E s \in Sessions : UpCloses(s)

HealthSpec == HealthInit /\ [][HealthNext]_vars

\* ------------------------------------------------------------ teleports

\* The kinds of play packets a downstream sends.
DownKinds == {"TeleportConfirm", "KeepAlive", "Other"}

\* PlayerPositionAndLook (0x2f) arrives, its teleport id being the number of the
\* packet: track() moves the player and sends TeleportConfirm with that id to
\* the upstream; the clientbound listeners forward the packet.
UpTeleport(s) ==
  /\ ~upEnded[s]
  /\ eid[s] # NoEid
  /\ upSeq < MaxUp
  /\ upSeq' = upSeq + 1
  /\ toUp' = [toUp EXCEPT ![s] = Append(@, <<NoCall, "TeleportConfirm", upSeq + 1>>)]
  /\ out' = SendAll(out, CallsOn(s, ClientboundListeners), "live", upSeq + 1)
  /\ missed' = [c \in Calls |-> IF c \in Replaying(s) THEN missed[c] \cup {upSeq + 1}
                                ELSE missed[c]]
  /\ UNCHANGED <<conn, eid, gamemode, upEnded, callS, callD, pc, idx,
                 unproxyLast, down, downSeq, mgrVars, trackVars, pureVars, loginVars>>

\* The downstream sends a packet of kind k; fin keeps what it sent.
DownPacketOf(d, k) ==
  /\ DownSends(d, k)
  /\ fin' = <<d, k>>
  /\ UNCHANGED <<fout, loginVars>>

TeleportInit == BridgeInitWith(OneSession, OneDown, 1..MaxCalls)

TeleportNext ==
  \/ Internal
  \/ Attachment
  \/ \E s \in Sessions : UpTeleport(s)
  \/ \E d \in Downs, k \in DownKinds : DownPacketOf(d, k)

TeleportSpec == TeleportInit /\ [][TeleportNext]_vars

\* ------------------------------------------------------------ the rewriter
\* A packet is [id |-> its packet id, data |-> the bytes that follow the id].

\* PacketWriter.writeVarInt(v), v >= 0: seven bits a byte, low bits first.
RECURSIVE WriteVarInt(_)
WriteVarInt(v) == IF v < 128 THEN <<v>> ELSE <<(v % 128) + 128>> \o WriteVarInt(v \div 128)

\* PacketReader.readVarInt() at offset i: the value and the offset behind it.
RECURSIVE ReadVarInt(_, _)
ReadVarInt(b, i) ==
  IF b[i] < 128 THEN [value |-> b[i], offset |-> i + 1]
  ELSE LET r == ReadVarInt(b, i + 1)
       IN [value |-> (b[i] - 128) + 128 * r.value, offset |-> r.offset]

\* PacketWriter.writeInt32(v) and PacketReader.readInt32(), 0 <= v < 2^31.
WriteInt32(v) == <<(v \div 16777216) % 256, (v \div 65536) % 256, (v \div 256) % 256, v % 256>>

ReadInt32(b, i) == b[i] * 16777216 + b[i + 1] * 65536 + b[i + 2] * 256 + b[i + 3]

\* packet.buffer.slice(offset)
Rest(b, i) == SubSeq(b, i, Len(b))

\* A rewriter that takes every entity for the player.
MapEidAlways(e, self, client) == client

\* eid == this.eid ? clientEid : eid
MapEid(e, self, client) == IF e = self THEN client ELSE e

\* readMetadata(packet) at offset i, for entries of type 0 (byte) and 1 (VarInt):
\* the entries up to the 0xff that ends them, and the offset behind it.
RECURSIVE ReadMetadata(_, _)
ReadMetadata(b, i) ==
  IF b[i] = 255 THEN [entries |-> <<>>, offset |-> i + 1]
  ELSE LET ty == ReadVarInt(b, i + 1)
           val == IF ty.value = 0 THEN [value |-> b[ty.offset], offset |-> ty.offset + 1]
                  ELSE ReadVarInt(b, ty.offset)
           more == ReadMetadata(b, val.offset)
       IN [entries |-> <<[index |-> b[i], type |-> ty.value, value |-> val.value]>>
                        \o more.entries,
           offset |-> more.offset]

\* writeMetadata(packet, metadata)
RECURSIVE WriteMetadata(_)
WriteMetadata(ms) ==
  IF ms = <<>> THEN <<255>>
  ELSE <<Head(ms).index>> \o WriteVarInt(Head(ms).type)
       \o (IF Head(ms).type = 0 THEN <<Head(ms).value>> ELSE WriteVarInt(Head(ms).value))
       \o WriteMetadata(Tail(ms))

\* mapClientboundPacket, set passengers: the n passenger ids from offset i on.
RECURSIVE MapPassengers(_, _, _, _, _)
MapPassengers(b, i, n, self, client) ==
  IF n = 0 THEN <<>>
  ELSE LET e == ReadVarInt(b, i)
       IN WriteVarInt(MapEid(e.value, self, client))
          \o MapPassengers(b, e.offset, n - 1, self, client)

\* The ids of the packets that start with the VarInt eid of an entity:
\* 0x6, 0x8, 0x26, 0x27, 0x28, 0x30, 0x33, 0x36, 0x39, 0x3e, 0x3f, 0x4c, 0x4e, 0x4f.
EidPackets == {6, 8, 38, 39, 40, 48, 51, 54, 57, 62, 63, 76, 78, 79}

\* mapClientboundPacket(packet, clientEid) of a session whose eid is self;
\* fireworks tells whether the entity the packet names is stored with objectType 76.
mapClientboundPacket(packet, self, client, fireworks) ==
  IF packet.id \in EidPackets
  THEN LET e == ReadVarInt(packet.data, 1)
       IN [id |-> packet.id,
           data |-> WriteVarInt(MapEid(e.value, self, client)) \o Rest(packet.data, e.offset)]
  ELSE IF packet.id = 60       \* 0x3c entity metadata
  THEN LET e == ReadVarInt(packet.data, 1)
           md == ReadMetadata(packet.data, e.offset).entries
           mapped == [k \in 1..Len(md) |->
                        IF fireworks /\ md[k].index = 7 /\ md[k].type = 1
                        THEN [md[k] EXCEPT !.value = MapEid(@, self, client)]
                        ELSE md[k]]
       IN [id |-> packet.id,
           data |-> WriteVarInt(MapEid(e.value, self, client)) \o WriteMetadata(mapped)]
  ELSE IF packet.id = 27       \* 0x1b entity status
  THEN [id |-> packet.id,
        data |-> WriteInt32(MapEid(ReadInt32(packet.data, 1), self, client))
                 \o <<packet.data[5]>>]
  ELSE IF packet.id = 67       \* 0x43 set passengers
  THEN LET vehicle == ReadVarInt(packet.data, 1)
           count == ReadVarInt(packet.data, vehicle.offset)
       IN [id |-> packet.id,
           data |-> WriteVarInt(vehicle.value) \o WriteVarInt(count.value)
                    \o MapPassengers(packet.data, count.offset, count.value, self, client)]
  ELSE packet

\* The entity ids of the packets under study: one and two VarInt bytes long, and
\* the id the downstream listener gives its client.
EidValues == {1, 2, 300, ClientEid}

\* Bytes that follow the eid, among them the byte that encodes eid 1.
RestBytes == {0, 1, 254}

\* The sequences over S of length up to n.
SeqsUpTo(S, n) == UNION {[1..k -> S] : k \in 0..n}

\* Ids of packets that the rewriter passes through: spawn object (0x0), chat
\* (0xf), entity (0x25), whose data starts like that of an EidPackets packet.
OtherPackets == {0, 15, 37}

RECURSIVE Concat(_)
Concat(ss) == IF ss = <<>> THEN <<>> ELSE Head(ss) \o Concat(Tail(ss))

\* The metadata of the packets under study.
MetadataEntries ==
  {[index |-> 0, type |-> 0, value |-> 1]} \cup
  {[index |-> 7, type |-> 1, value |-> e] : e \in EidValues}

\* The well-formed packets an upstream may send, as far as the rewriter tells
\* them apart.
\* A join game (0x23) starts with its Int32 eid, followed by the gamemode.
ClientboundPackets ==
  {[id |-> i, data |-> WriteVarInt(e) \o r] :
     i \in EidPackets \cup OtherPackets, e \in EidValues, r \in SeqsUpTo(RestBytes, MaxRestLen)}
  \cup {[id |-> 27, data |-> WriteInt32(e) \o <<st>>] : e \in EidValues, st \in RestBytes}
  \cup {[id |-> 35, data |-> WriteInt32(e) \o <<gm>>] : e \in EidValues, gm \in {0, 1}}
  \cup {[id |-> 60, data |-> WriteVarInt(e) \o WriteMetadata(ms)] :
          e \in EidValues, ms \in SeqsUpTo(MetadataEntries, MaxEntries)}
  \cup {[id |-> 67, data |-> WriteVarInt(e) \o WriteVarInt(Len(ps))
                             \o Concat([k \in 1..Len(ps) |-> WriteVarInt(ps[k])])] :
          e \in EidValues, ps \in SeqsUpTo(EidValues, MaxEntries)}

RewriteInit ==
  /\ InitWith({}, {}, {})
  /\ MgrInitWith({}, {})
  /\ TrackInitWith({}, DefaultAutoDisconnect)
  /\ NoLogin
  /\ fin \in [packet : ClientboundPackets, eid : EidValues, clientEid : EidValues,
             fireworks : BOOLEAN]
  /\ fout = <<>>

\* The clientbound listener maps the packet for the downstream.
MapForth ==
  /\ fout = <<>>
  /\ fout' = <<mapClientboundPacket(fin.packet, fin.eid, fin.clientEid, fin.fireworks)>>
  /\ UNCHANGED <<bridgeVars, mgrVars, trackVars, loginVars, fin>>

\* The result is mapped once more, with the two ids in each other's place.
MapBack ==
  /\ Len(fout) = 1
  /\ fout' = Append(fout, mapClientboundPacket(fout[1], fin.clientEid, fin.eid, fin.fireworks))
  /\ UNCHANGED <<bridgeVars, mgrVars, trackVars, loginVars, fin>>

RewriteNext == MapForth \/ MapBack

RewriteSpec == RewriteInit /\ [][RewriteNext]_vars

\* ------------------------------------------------------ the login handshake
\* server.ts: the "connection" handler of a downstream, from its handshake to
\* the play phase.  store.profiles is data.profiles in the order of its keys'
\* insertion, store.owned the ids some user's profiles hold.
ProtocolVersion == 340

HandshakeProtocols == {ProtocolVersion - 1, ProtocolVersion, ProtocolVersion + 1}
ProfileIds == {1, 2}
ProfileNames == {"alice", "bob"}
Usernames == ProfileNames \cup {"mallory"}

\* A socket the server has accepted.
NewClient == [phase |-> "handshake", nextState |-> "none", protocol |-> 0,
              username |-> "", sent |-> <<>>]

\* A server that tells an old client that the server is outdated, and the reverse.
OutdatedKeySwapped(p) ==
  IF p > ProtocolVersion THEN "multiplayer.disconnect.outdated_client"
  ELSE "multiplayer.disconnect.outdated_server"

\* "multiplayer.disconnect.outdated_" + (client.protocol < 340 ? "client" : "server")
OutdatedKey(p) ==
  IF p < ProtocolVersion THEN "multiplayer.disconnect.outdated_client"
  ELSE "multiplayer.disconnect.outdated_server"

\* [...data.profiles.values()].find(profile => profile.name == username): the
\* index of the first such profile, 0 if there is none.
FindProfile(st, username) ==
  LET at == {i \in 1..Len(st.profiles) : st.profiles[i].name = username}
  IN IF at = {} THEN 0 ELSE CHOOSE i \in at : \A j \in at : i <= j

\* A server that asks for the profile alone.
LoginAllowedUnowned(st, username) == FindProfile(st, username) # 0

\* profile && user: the profile found has an owner.
LoginAllowed(st, username) ==
  /\ FindProfile(st, username) # 0
  /\ st.profiles[FindProfile(st, username)].id \in st.owned

\* What a step of the handler leaves alone when it ends the client or goes on.
LoginFrame == UNCHANGED <<conn, eid, gamemode, upEnded, upSeq, callS, callD, pc, idx, missed,
                          unproxyLast, downSeq, out, toUp, mgrVars, trackVars, pureVars, store>>

\* client.end(packet): the packet is written and the socket closes.
ClientEnd(d, rec, packet) ==
  /\ login' = [login EXCEPT ![d] = [rec EXCEPT !.phase = "ended", !.sent = Append(@, packet)]]
  /\ down' = [down EXCEPT ![d] = "ending"]

\* The handler goes on to the phase ph.
ClientGoes(d, rec, ph) ==
  /\ login' = [login EXCEPT ![d] = [rec EXCEPT !.phase = ph]]
  /\ UNCHANGED down

\* The handshake arrives: a status request goes to handleStatus, a login with
\* another protocol than 340 is ended, any other waits for the login start.
Handshake(d, st, p) ==
  /\ down[d] = "open"
  /\ login[d].phase = "handshake"
  /\ LET rec == [login[d] EXCEPT !.nextState = st, !.protocol = p]
     IN IF st = "Status" THEN ClientGoes(d, rec, "status")
        ELSE IF p # ProtocolVersion
        THEN ClientEnd(d, rec, [id |-> "Disconnect", arg |-> OutdatedKey(p)])
        ELSE ClientGoes(d, rec, "loginStart")
  /\ LoginFrame

\* The login start arrives; the handler awaits client.encrypt(username).
LoginStart(d, username) ==
  /\ down[d] = "open"
  /\ login[d].phase = "loginStart"
  /\ ClientGoes(d, [login[d] EXCEPT !.username = username], "encrypting")
  /\ LoginFrame

\* The encryption is set up: the profile and its owner are looked up, and the
\* client is ended or sent the login success.
Encrypted(d) ==
  /\ down[d] = "open"
  /\ login[d].phase = "encrypting"
  /\ IF LoginAllowed(store, login[d].username)
     THEN ClientGoes(d, [login[d] EXCEPT !.sent = Append(@, [id |-> "LoginSuccess",
                                                            arg |-> login[d].username])],
                     "loginSuccess")
     ELSE ClientEnd(d, login[d], [id |-> "Disconnect",
                                  arg |-> "You need to connect via one of your profiles"])
  /\ LoginFrame

\* The login success is written: the join game is sent.
SentLoginSuccess(d) ==
  /\ down[d] = "open"
  /\ login[d].phase = "loginSuccess"
  /\ ClientGoes(d, [login[d] EXCEPT !.sent = Append(@, [id |-> "JoinGame", arg |-> ""])],
                "joinGame")
  /\ LoginFrame

\* The join game is written: position, player list item and the list of
\* profiles are sent and the chat handler is registered.
SentJoinGame(d) ==
  /\ down[d] = "open"
  /\ login[d].phase = "joinGame"
  /\ ClientGoes(d, [login[d] EXCEPT !.sent = @ \o <<[id |-> "PlayerPositionAndLook", arg |-> ""],
                                                   [id |-> "PlayerListItem", arg |-> ""],
                                                   [id |-> "ChatMessage", arg |-> ""]>>],
                "play")
  /\ LoginFrame

\* The chat handler exists once the handler has reached the play phase.
LoginChatConnect(d, s) == login[d].phase = "play" /\ ChatConnect(d, s)

\* The downstream closes its socket, wherever its handler stands.
ClientLeaves(d) == down[d] = "open" /\ DownEnd(d)

\* POST /api/profiles with a list: data.profiles.set and user.profiles.add.
AddProfile(i, nm) ==
  /\ store' = [profiles |->
                 IF \E k \in 1..Len(store.profiles) : store.profiles[k].id = i
                 THEN [k \in 1..Len(store.profiles) |->
                         IF store.profiles[k].id = i THEN [id |-> i, name |-> nm]
                         ELSE store.profiles[k]]
                 ELSE Append(store.profiles, [id |-> i, name |-> nm]),
               owned |-> store.owned \cup {i}]
  /\ UNCHANGED <<bridgeVars, mgrVars, trackVars, pureVars, login>>

\* DELETE /api/profiles/:id
DeleteProfile(i) ==
  /\ i \in store.owned
  /\ store' = [profiles |-> SelectSeq(store.profiles, LAMBDA pr : pr.id # i),
               owned |-> store.owned \ {i}]
  /\ UNCHANGED <<bridgeVars, mgrVars, trackVars, pureVars, login>>

\* The stores a start can load: profiles with distinct ids, owned or not.
LoadedStores ==
  {[profiles |-> ps, owned |-> ow] :
     ps \in {q \in SeqsUpTo([id : ProfileIds, name : ProfileNames], Cardinality(ProfileIds)) :
               \A k, l \in 1..Len(q) : q[k].id = q[l].id => k = l},
     ow \in SUBSET ProfileIds}

LoginInit ==
  /\ InitWith(OneSession, OneDown, 1..MaxCalls)
  /\ MgrInitWith({}, {})
  /\ TrackInitWith(OneSession, DefaultAutoDisconnect)
  /\ NoCallInit
  /\ login = [d \in OneDown |-> NewClient]
  /\ store \in LoadedStores

LoginNext ==
  \/ Internal
  \/ \E d \in Downs, p \in HandshakeProtocols : \E st \in {"Status", "Login"} : Handshake(d, st, p)
  \/ \E d \in Downs, username \in Usernames : LoginStart(d, username)
  \/ \E d \in Downs : Encrypted(d) \/ SentLoginSuccess(d) \/ SentJoinGame(d) \/ ClientLeaves(d)
  \/ \E d \in Downs, s \in Sessions : LoginChatConnect(d, s)
  \/ \E s \in Sessions : UpJoin(s)
  \/ \E i \in ProfileIds : DeleteProfile(i) \/ \E nm \in ProfileNames : AddProfile(i, nm)

LoginSpec == LoginInit /\ [][LoginNext]_vars

\* ------------------------------------------------------------ the mirror
\* The state track() keeps of the upstream's world, as far as getPackets() reads
\* it back.  A packet is [id, data]: data is the byte sequence of the fields the
\* rewriter reads, and one number for each other field that is modelled.
\* Fields that track() copies from a packet and getPackets() copies back
\* (abilities, inventory, experience, spawn position, time, held item, recipes,
\* coordinates but x) are left out of both.  Every entity under study spawns
\* at x = 0, so the spawn packets do not carry x either.
NewEntity(e, ty) ==
  [eid |-> e, type |-> ty, x |-> 0, objectType |-> 0, hasMetadata |-> FALSE,
   metadata |-> <<>>, hasPassengers |-> FALSE, passengers |-> {}, attachedEid |-> 0]

\* Connection field initialisers; camera and ridingEid 0 stand for null.
\* Level types are numbered: 0 is "default", 1 is "flat", 2 is "".
FreshMirror ==
  [eid |-> NoEid, gamemode |-> 0, dimension |-> 0, difficulty |-> 0, levelType |-> 0,
   health |-> 20, healthInitialized |-> FALSE, raining |-> FALSE,
   camera |-> 0, ridingEid |-> 0, playerX |-> 0,
   entities |-> <<>>, players |-> {}, teams |-> {}, bossBars |-> {}, maps |-> {},
   chunks |-> <<>>]

\* chunks maps the x of every loaded column to its chunk (the columns under
\* study have z = 0).  A chunk is the set of its sections that are not null,
\* the entries of their block arrays that are not 0, keyed by <<section, index>>,
\* and the array of its block entities, each one [x, y, z].
NewChunk == [sections |-> {}, blocks |-> <<>>, blockEntities |-> <<>>]

\* getChunk(x, z) is defined when x is in the domain.
HasChunk(cs, x) == x \in DOMAIN cs

\* setChunk(x, z, chunk)
SetChunk(cs, x, chunk) ==
  [k \in DOMAIN cs \cup {x} |-> IF k = x THEN chunk ELSE cs[k]]

\* A deleteChunk that leaves the column in place.
DeleteChunkKept(cs, x) == cs

\* deleteChunk(x, z)
DeleteChunk(cs, x) == [k \in DOMAIN cs \ {x} |-> cs[k]]

\* The sections s with (sectionBitMask & (1 << s)) != 0.
SectionsOf(mask) == {s \in 0..15 : (mask \div (2 ^ s)) % 2 = 1}

\* sectionBitMask |= 1 << s for every section of S.
RECURSIVE MaskOf(_)
MaskOf(S) == IF S = {} THEN 0
             ELSE LET s == CHOOSE t \in S : TRUE IN (2 ^ s) + MaskOf(S \ {s})

\* entities.has(e), entities.get(e), entities.set(e, ent):
\* a Map keeps its keys in the order of their first insertion.
EntityIndex(es, e) ==
  IF \E i \in 1..Len(es) : es[i].eid = e
  THEN CHOOSE i \in 1..Len(es) : es[i].eid = e
  ELSE 0

HasEntity(es, e) == EntityIndex(es, e) # 0

GetEntity(es, e) == es[EntityIndex(es, e)]

SetEntity(es, ent) ==
  IF HasEntity(es, ent.eid) THEN [es EXCEPT ![EntityIndex(es, ent.eid)] = ent]
  ELSE Append(es, ent)

\* entity.metadata.set(index, entry) for every entry read
RECURSIVE SetMetadata(_, _)
SetMetadata(md, entries) ==
  IF entries = <<>> THEN md
  ELSE LET en == Head(entries)
           at == {i \in 1..Len(md) : md[i].index = en.index}
           nx == IF at = {} THEN Append(md, en)
                 ELSE [md EXCEPT ![CHOOSE i \in at : TRUE] = en]
       IN SetMetadata(nx, Tail(entries))

\* The n VarInts of b from offset i on.
RECURSIVE ReadVarInts(_, _, _)
ReadVarInts(b, i, n) ==
  IF n = 0 THEN <<>>
  ELSE LET e == ReadVarInt(b, i) IN <<e.value>> \o ReadVarInts(b, e.offset, n - 1)

Range(s) == {s[i] : i \in DOMAIN s}

\* section.blocks[index] = block
WriteBlock(blocks, key, block) ==
  IF block = 0 THEN [k \in DOMAIN blocks \ {key} |-> blocks[k]]
  ELSE [k \in DOMAIN blocks \cup {key} |-> IF k = key THEN block ELSE blocks[k]]

\* section.blocks[index]
BlockAt(blocks, key) == IF key \in DOMAIN blocks THEN blocks[key] ELSE 0

\* blockEntities.filter(block => +block.x != x && +block.y != y && +block.z != z)
Purge(bes, x, y, z) == SelectSeq(bes, LAMBDA b : b.x # x /\ b.y # y /\ b.z # z)

\* The chunk data handler: a full chunk starts from a new chunk, a partial one
\* from the loaded chunk if there is one; the sections of the bit mask take the
\* packet's blocks, and blockEntities the packet's block entities.
ChunkData(M, x, fullChunk, secs, bes, blocks) ==
  IF ~fullChunk /\ ~HasChunk(M.chunks, x) THEN M
  ELSE LET base == IF fullChunk THEN NewChunk ELSE M.chunks[x]
           keep == {k \in DOMAIN base.blocks : k[1] \notin secs}
           new == {k \in DOMAIN blocks : k[1] \in secs}
       IN [M EXCEPT !.chunks =
             SetChunk(@, x, [sections |-> base.sections \cup secs,
                             blocks |-> [k \in keep \cup new |->
                                           IF k \in new THEN blocks[k] ELSE base.blocks[k]],
                             blockEntities |-> bes])]

\* The block change handler for the block at (x, y, z).
BlockChange(M, x, y, z, block) ==
  LET cx == x \div 16
      sec == y \div 16
  IN IF z \div 16 # 0 \/ ~HasChunk(M.chunks, cx) THEN M
     ELSE IF sec \notin M.chunks[cx].sections THEN M
     ELSE [M EXCEPT !.chunks[cx] =
             [@ EXCEPT !.blocks = WriteBlock(@, <<sec, (y % 16) * 256 + (z % 16) * 16 + (x % 16)>>,
                                             block),
                       !.blockEntities = IF block = 0 THEN Purge(@, x, y, z) ELSE @]]

\* The loop of the multi block change handler over the records [value, y, block]:
\* a record whose section is null returns from the handler.
RECURSIVE ApplyRecords(_, _)
ApplyRecords(chunk, recs) ==
  IF recs = <<>> THEN chunk
  ELSE LET r == Head(recs)
           x == r.value \div 16
           z == r.value % 16
           sec == r.y \div 16
       IN IF sec \notin chunk.sections THEN chunk
          ELSE ApplyRecords(
                 [chunk EXCEPT !.blocks = WriteBlock(@, <<sec, (r.y % 16) * 256 + z * 16 + x>>,
                                                     r.block),
                               !.blockEntities = IF r.block = 0 THEN Purge(@, x, r.y, z) ELSE @],
                 Tail(recs))

\* The records of a multi block change packet: chunk x, count, then value, y,
\* block for each record.
RecordsOf(d) ==
  [i \in 1..d[2] |-> [value |-> d[3 * i], y |-> d[3 * i + 1], block |-> d[3 * i + 2]]]

\* The body of the two vehicle move handlers (clientbound 0x29, serverbound
\* 0x10): entities.get(ridingEid) and the player take the position.
VehicleMove(M, x) ==
  LET M1 == IF M.ridingEid # 0 /\ HasEntity(M.entities, M.ridingEid)
            THEN [M EXCEPT !.entities[EntityIndex(M.entities, M.ridingEid)].x = x]
            ELSE M
  IN [M1 EXCEPT !.playerX = x]

\* A respawn handler that never clears the world.
RespawnKeepsWorld(M, d) ==
  [M EXCEPT !.dimension = d[1], !.difficulty = d[2], !.gamemode = d[3], !.levelType = d[4]]

\* The respawn handler: dimension, difficulty, gamemode, levelType.  A player
\* entity that is missing is stored as undefined.
Respawn(M, d) ==
  LET kept == IF HasEntity(M.entities, M.eid) THEN GetEntity(M.entities, M.eid)
              ELSE NewEntity(M.eid, "undefined")
      M1 == IF M.dimension # d[1]
            THEN [M EXCEPT !.chunks = <<>>, !.maps = {}, !.entities = <<kept>>]
            ELSE M
  IN [M1 EXCEPT !.dimension = d[1], !.difficulty = d[2], !.gamemode = d[3],
                !.levelType = d[4]]

\* The handlers track() registers, applied to one packet of the upstream.
TrackPacket(M, p) ==
  LET d == p.data
      es == M.entities
  IN
  CASE p.id = 35 ->         \* 0x23 join game
         LET e == ReadInt32(d, 1)
         IN [M EXCEPT !.eid = e, !.gamemode = d[5], !.dimension = d[6],
                      !.difficulty = d[7], !.levelType = d[8],
                      !.entities = SetEntity(es, NewEntity(e, "player"))]
    [] p.id = 53 ->         \* 0x35 respawn
         Respawn(M, d)
    [] p.id = 0 ->          \* 0x0 spawn object
         LET e == ReadVarInt(d, 1)
         IN [M EXCEPT !.entities =
               SetEntity(es, [NewEntity(e.value, "object") EXCEPT !.objectType = d[e.offset]])]
    [] p.id \in {3, 5} ->   \* 0x3 spawn mob, 0x5 spawn player
         LET e == ReadVarInt(d, 1)
             ty == IF p.id = 3 THEN "mob" ELSE "player"
         IN [M EXCEPT !.entities =
               SetEntity(es, [NewEntity(e.value, ty) EXCEPT
                                !.hasMetadata = TRUE,
                                !.metadata = SetMetadata(<<>>, ReadMetadata(d, e.offset).entries)])]
    [] p.id = 50 ->         \* 0x32 destroy entities
         LET n == ReadVarInt(d, 1)
             gone == Range(ReadVarInts(d, n.offset, n.value))
         IN [M EXCEPT !.entities = SelectSeq(es, LAMBDA x : x.eid \notin gone)]
    [] p.id = 60 ->         \* 0x3c entity metadata
         LET e == ReadVarInt(d, 1)
         IN IF ~HasEntity(es, e.value) THEN M
            ELSE [M EXCEPT !.entities[EntityIndex(es, e.value)] =
                    [@ EXCEPT !.hasMetadata = TRUE,
                              !.metadata = SetMetadata(@, ReadMetadata(d, e.offset).entries)]]
    [] p.id = 61 ->         \* 0x3d attach entity
         IF ~HasEntity(es, d[1]) THEN M
         ELSE [M EXCEPT !.entities[EntityIndex(es, d[1])].attachedEid = d[2]]
    [] p.id = 67 ->         \* 0x43 set passengers
         LET e == ReadVarInt(d, 1)
             n == ReadVarInt(d, e.offset)
             ps == Range(ReadVarInts(d, n.offset, n.value))
         IN IF ~HasEntity(es, e.value) THEN M
            ELSE [M EXCEPT !.ridingEid = IF M.eid \in ps THEN M.eid
                                         ELSE IF @ = e.value THEN 0 ELSE @,
                           !.entities[EntityIndex(es, e.value)] =
                              [@ EXCEPT !.hasPassengers = TRUE, !.passengers = ps]]
    [] p.id = 57 ->         \* 0x39 camera
         [M EXCEPT !.camera = ReadVarInt(d, 1).value]
    [] p.id = 12 ->         \* 0xc boss bar, actions 0 (add) and 1 (remove)
         IF d[2] = 0 THEN [M EXCEPT !.bossBars = @ \cup {d[1]}]
         ELSE IF d[2] = 1 THEN [M EXCEPT !.bossBars = @ \ {d[1]}]
         ELSE M
    [] p.id = 30 ->         \* 0x1e change game state
         IF d[1] = 1 THEN [M EXCEPT !.raining = FALSE]
         ELSE IF d[1] = 2 THEN [M EXCEPT !.raining = TRUE]
         ELSE IF d[1] = 3 THEN [M EXCEPT !.gamemode = d[2]]
         ELSE M
    [] p.id = 65 ->         \* 0x41 update health
         [M EXCEPT !.health = d[1], !.healthInitialized = TRUE]
    [] p.id = 47 ->         \* 0x2f player position and look: x, flags, teleport id
         [M EXCEPT !.playerX = (IF d[2] % 2 = 1 THEN @ ELSE 0) + d[1]]
    [] p.id = 46 ->         \* 0x2e player list item, actions 0 (add) and 4 (remove)
         LET n == d[2]
             us == {d[2 + i] : i \in 1..n}
         IN IF d[1] = 0 THEN [M EXCEPT !.players = @ \cup us]
            ELSE IF d[1] = 4 THEN [M EXCEPT !.players = @ \ us]
            ELSE M
    [] p.id = 68 ->         \* 0x44 teams, modes 0 (create) and 1 (remove)
         IF d[2] = 0 THEN [M EXCEPT !.teams = @ \cup {d[1]}]
         ELSE IF d[2] = 1 THEN [M EXCEPT !.teams = @ \ {d[1]}]
         ELSE M
    [] p.id = 36 ->         \* 0x24 map
         [M EXCEPT !.maps = @ \cup {d[1]}]
    [] p.id = 32 ->         \* 0x20 chunk data: x, full chunk, section bit mask,
                            \* block entities, blocks
         ChunkData(M, d[1], d[2] = 1, SectionsOf(d[3]), d[4], d[5])
    [] p.id = 11 ->         \* 0xb block change: x, y, z, block
         BlockChange(M, d[1], d[2], d[3], d[4])
    [] p.id = 16 ->         \* 0x10 multi block change
         IF ~HasChunk(M.chunks, d[1]) THEN M
         ELSE [M EXCEPT !.chunks[d[1]] = ApplyRecords(@, RecordsOf(d))]
    [] p.id = 29 ->         \* 0x1d unload chunk
         [M EXCEPT !.chunks = DeleteChunk(@, d[1])]
    [] p.id = 41 ->         \* 0x29 vehicle move: x
         VehicleMove(M, d[1])
    [] OTHER -> M

\* The handlers applied to a sequence of packets, in order.
RECURSIVE TrackAll(_, _)
TrackAll(M, ps) == IF ps = <<>> THEN M ELSE TrackAll(TrackPacket(M, Head(ps)), Tail(ps))

\* ------------------------------------------------------------ the replay
\* A generator whose respawn carries the gamemode as it is.
JoinPacketsUnmasked(M, respawn, clientEid) ==
  IF respawn
  THEN <<[id |-> 53, data |-> <<IF M.dimension = 1 THEN 0 ELSE 1, 0, 3, 2>>],
         [id |-> 53, data |-> <<M.dimension, M.difficulty, M.gamemode, M.levelType>>]>>
  ELSE <<[id |-> 35, data |-> WriteInt32(clientEid)
                              \o <<M.gamemode, M.dimension, M.difficulty, M.levelType>>]>>

\* getPackets(): the part each stretch of the generator yields.  Join game
\* carries the eid of the downstream, the second respawn the masked gamemode.
JoinPackets(M, respawn, clientEid) ==
  IF respawn
  THEN <<[id |-> 53, data |-> <<IF M.dimension = 1 THEN 0 ELSE 1, 0, 3, 2>>],
         [id |-> 53, data |-> <<M.dimension, M.difficulty, M.gamemode % 8, M.levelType>>]>>
  ELSE <<[id |-> 35, data |-> WriteInt32(clientEid)
                              \o <<M.gamemode, M.dimension, M.difficulty, M.levelType>>]>>

\* Player abilities up to unlock recipes.
WorldPackets(M) ==
  <<[id |-> 44, data |-> <<>>]>>
  \o <<[id |-> 46, data |-> <<0, Cardinality(M.players)>> \o SeqOf(M.players)]>>
  \o [i \in 1..Cardinality(M.teams) |-> [id |-> 68, data |-> <<SeqOf(M.teams)[i], 0>>]]
  \o <<[id |-> 20, data |-> <<>>]>>
  \o [i \in 1..Cardinality(M.maps) |-> [id |-> 36, data |-> <<SeqOf(M.maps)[i]>>]]
  \o <<[id |-> 58, data |-> <<>>], [id |-> 64, data |-> <<>>]>>
  \o (IF M.healthInitialized THEN <<[id |-> 65, data |-> <<M.health>>]>> ELSE <<>>)
  \o <<[id |-> 70, data |-> <<>>], [id |-> 71, data |-> <<>>]>>
  \o (IF M.raining THEN <<[id |-> 30, data |-> <<2, 0>>]>> ELSE <<>>)
  \o <<[id |-> 49, data |-> <<>>]>>

\* Player position and look: absolute, flags 0, teleport id 0.
PositionPackets(M) == <<[id |-> 47, data |-> <<M.playerX, 0, 0>>]>>

\* The spawn packet of an entity, if it has one, and its metadata packet.
EntityPackets(M, en) ==
  (IF en.type = "object"
   THEN <<[id |-> 0, data |-> WriteVarInt(en.eid) \o <<en.objectType>>]>>
   ELSE IF en.type = "mob"
   THEN <<[id |-> 3, data |-> WriteVarInt(en.eid) \o WriteMetadata(en.metadata)]>>
   ELSE IF en.type = "player" /\ en.eid # M.eid
   THEN <<[id |-> 5, data |-> WriteVarInt(en.eid) \o WriteMetadata(en.metadata)]>>
   ELSE <<>>)
  \o (IF en.hasMetadata /\ en.type # "mob" /\ (en.type # "player" \/ en.eid = M.eid)
      THEN <<[id |-> 60, data |-> WriteVarInt(en.eid) \o WriteMetadata(en.metadata)]>>
      ELSE <<>>)

\* Set passengers and attach entity of an entity.
LinkPackets(en) ==
  (IF en.hasPassengers
   THEN <<[id |-> 67, data |-> WriteVarInt(en.eid) \o WriteVarInt(Cardinality(en.passengers))
                               \o Concat([k \in 1..Cardinality(en.passengers) |->
                                            WriteVarInt(SeqOf(en.passengers)[k])])]>>
   ELSE <<>>)
  \o (IF en.attachedEid # 0 THEN <<[id |-> 61, data |-> <<en.eid, en.attachedEid>>]>>
      ELSE <<>>)

\* Camera, then the links of every entity.
CameraPackets(M) ==
  (IF M.camera # 0 THEN <<[id |-> 57, data |-> WriteVarInt(M.camera)]>> ELSE <<>>)
  \o Concat([i \in 1..Len(M.entities) |-> LinkPackets(M.entities[i])])

ChunkPackets(M) ==
  [i \in 1..Cardinality(DOMAIN M.chunks) |->
     LET x == SeqOf(DOMAIN M.chunks)[i]
     IN [id |-> 32, data |-> <<x, 1, MaskOf(M.chunks[x].sections),
                              M.chunks[x].blockEntities, M.chunks[x].blocks>>]]

\* A generator that yields the chunks before the player's position.
ReplayOrderChunksEarly(join, world, position, entities, links, chunks) ==
  join \o world \o chunks \o position \o entities \o links

\* The order in which getPackets() yields the stretches.
ReplayOrder(join, world, position, entities, links, chunks) ==
  join \o world \o position \o entities \o links \o chunks

getPackets(M, respawn, clientEid) ==
  ReplayOrder(JoinPackets(M, respawn, clientEid), WorldPackets(M), PositionPackets(M),
              Concat([i \in 1..Len(M.entities) |-> EntityPackets(M, M.entities[i])]),
              CameraPackets(M), ChunkPackets(M))

\* proxy(): every packet of getPackets() goes through mapClientboundPacket.
ReplayFireworks(M, p) ==
  /\ p.id = 60
  /\ HasEntity(M.entities, ReadVarInt(p.data, 1).value)
  /\ GetEntity(M.entities, ReadVarInt(p.data, 1).value).objectType = 76

ProxyReplay(M, respawn, clientEid) ==
  LET ps == getPackets(M, respawn, clientEid)
  IN [k \in 1..Len(ps) |-> mapClientboundPacket(ps[k], M.eid, clientEid, ReplayFireworks(M, ps[k]))]

\* The mirror with the downstream's eid in the place of the session's own: what
\* a downstream that was sent the replay is to hold.
RemapMetadata(en, self, client) ==
  [k \in 1..Len(en.metadata) |->
     IF en.objectType = 76 /\ en.metadata[k].index = 7 /\ en.metadata[k].type = 1
     THEN [en.metadata[k] EXCEPT !.value = MapEid(@, self, client)]
     ELSE en.metadata[k]]

RemapEntity(en, self, client) ==
  [en EXCEPT !.eid = MapEid(@, self, client),
             !.metadata = RemapMetadata(en, self, client),
             !.passengers = {MapEid(e, self, client) : e \in @},
             !.attachedEid = MapEid(@, self, client)]

Remap(M, client) ==
  [M EXCEPT !.eid = client,
            !.camera = MapEid(@, M.eid, client),
            !.ridingEid = MapEid(@, M.eid, client),
            !.entities = [i \in 1..Len(@) |-> RemapEntity(@[i], M.eid, client)]]

\* Two mirrors hold the same: the entities as a map, whatever their order.
SameMirror(A, B) ==
  /\ [A EXCEPT !.entities = <<>>] = [B EXCEPT !.entities = <<>>]
  /\ Range(A.entities) = Range(B.entities)

\* The upstream packets under study.
Gamemodes == {0, 1, 8, 11}
Dimensions == {0, 1}
OtherEids == {2}
MirrorEids == {SelfEid} \cup OtherEids
Keys == {1}
TrackedMetadata ==
  {<<>>, <<[index |-> 0, type |-> 0, value |-> 1]>>,
   <<[index |-> 7, type |-> 1, value |-> SelfEid]>>}

\* The packets an upstream sends, by the handler of track() that takes them:
\* join game, respawn, spawn object (a fireworks rocket), spawn mob, spawn
\* player, destroy entities, entity metadata, attach entity, set passengers,
\* camera, boss bar, change game state, update health, player position and look,
\* player list item, teams, map, chunk data, unload chunk.
UpstreamPackets ==
  {[id |-> 35, data |-> WriteInt32(SelfEid) \o <<gm, dim, 0, 1>>] :
     gm \in Gamemodes, dim \in Dimensions}
  \cup {[id |-> 53, data |-> <<dim, 0, gm, 1>>] : gm \in Gamemodes, dim \in Dimensions}
  \cup {[id |-> 0, data |-> WriteVarInt(e) \o <<76>>] : e \in OtherEids}
  \cup {[id |-> i, data |-> WriteVarInt(e) \o WriteMetadata(md)] :
          i \in {3, 5}, e \in OtherEids, md \in TrackedMetadata}
  \cup {[id |-> 50, data |-> WriteVarInt(1) \o WriteVarInt(e)] : e \in OtherEids}
  \cup {[id |-> 60, data |-> WriteVarInt(e) \o WriteMetadata(md)] :
          e \in MirrorEids, md \in TrackedMetadata}
  \cup {[id |-> 61, data |-> <<e, h>>] : e \in OtherEids, h \in {0, SelfEid}}
  \cup {[id |-> 67, data |-> WriteVarInt(e) \o WriteVarInt(Cardinality(ps))
                             \o Concat([k \in 1..Cardinality(ps) |->
                                          WriteVarInt(SeqOf(ps)[k])])] :
          e \in OtherEids, ps \in SUBSET {SelfEid}}
  \cup {[id |-> 57, data |-> WriteVarInt(e)] : e \in MirrorEids}
  \cup {[id |-> 12, data |-> <<u, ac>>] : u \in Keys, ac \in {0, 1}}
  \cup {[id |-> 30, data |-> <<r, 0>>] : r \in {1, 2}}
  \cup {[id |-> 30, data |-> <<3, gm>>] : gm \in Gamemodes}
  \cup {[id |-> 65, data |-> <<h>>] : h \in {0, 20}}
  \cup {[id |-> 47, data |-> <<8, f, 1>>] : f \in {0, 1}}
  \cup {[id |-> 46, data |-> <<ac, 1, u>>] : u \in Keys, ac \in {0, 4}}
  \cup {[id |-> 68, data |-> <<tm, m>>] : tm \in Keys, m \in {0, 1}}
  \cup {[id |-> i, data |-> <<k>>] : i \in {36, 29}, k \in Keys}
  \cup {[id |-> 32, data |-> <<k, 1, 1, <<>>, <<>>>>] : k \in Keys}

\* An upstream packet arrives and the handlers of track() apply it; fin holds the
\* mirror and the number of packets applied, fout the replay once it was made.
\* The first packet of a session is its join game.
Tracks ==
  \E p \in UpstreamPackets :
    /\ fout = <<>>
    /\ fin.n < MaxTrack
    /\ fin.mirror.eid # NoEid \/ p.id = 35
    /\ fin' = [mirror |-> TrackPacket(fin.mirror, p), n |-> fin.n + 1]
    /\ UNCHANGED <<bridgeVars, mgrVars, trackVars, loginVars, fout>>

\* A downstream is proxied: the replay it is sent, and the mirror a fresh track()
\* makes of it.
Replays(respawn) ==
  /\ fout = <<>>
  /\ fin.mirror.eid # NoEid
  /\ fout' = <<[respawn |-> respawn,
                packets |-> ProxyReplay(fin.mirror, respawn, ClientEid),
                mirror |-> TrackAll(FreshMirror, ProxyReplay(fin.mirror, respawn, ClientEid))]>>
  /\ UNCHANGED <<bridgeVars, mgrVars, trackVars, loginVars, fin>>

ReplayInit ==
  /\ InitWith({}, {}, {})
  /\ MgrInitWith({}, {})
  /\ TrackInitWith({}, DefaultAutoDisconnect)
  /\ NoLogin
  /\ fin = [mirror |-> FreshMirror, n |-> 0]
  /\ fout = <<>>

ReplayNext == Tracks \/ \E respawn \in BOOLEAN : Replays(respawn)

ReplaySpec == ReplayInit /\ [][ReplayNext]_vars

\* ------------------------------------------------------------ the mirror's invariants
\* track() under any packets a server can send, the player's own eid in spawn
\* and destroy packets and partial chunk data included.
MoveXs == {5}
SectionMasks == {1, 2}

MirrorPackets ==
  {[id |-> 35, data |-> WriteInt32(e) \o <<0, 0, 0, 0>>] : e \in MirrorEids}
  \cup {[id |-> 53, data |-> <<dim>> \o rest] :
          dim \in Dimensions, rest \in {<<0, 0, 0>>, <<2, 1, 1>>}}
  \cup {[id |-> i, data |-> WriteVarInt(e) \o WriteMetadata(<<>>)] :
          i \in {3, 5}, e \in MirrorEids}
  \cup {[id |-> 50, data |-> WriteVarInt(1) \o WriteVarInt(e)] : e \in MirrorEids}
  \cup {[id |-> 67, data |-> WriteVarInt(e) \o WriteVarInt(Cardinality(ps))
                             \o Concat([k \in 1..Cardinality(ps) |->
                                          WriteVarInt(SeqOf(ps)[k])])] :
          e \in MirrorEids, ps \in SUBSET {SelfEid}}
  \cup {[id |-> 41, data |-> <<x>>] : x \in MoveXs}
  \cup {[id |-> 32, data |-> <<k, full, mask, <<>>, <<>>>>] :
          k \in Keys, full \in {0, 1}, mask \in SectionMasks}
  \cup {[id |-> i, data |-> <<k>>] : i \in {29, 36}, k \in Keys}

\* What the packets so far say about column k, kept beside the mirror:
\* `recent` is the most recent chunk data for it, `full` the most recent full
\* chunk data together with the partial ones after it; gone tells whether the
\* column was unloaded, or dropped by a change of dimension, since.
NoColumn == [any |-> FALSE, sections |-> {}, gone |-> FALSE]

ColumnsAfter(h, M, p) ==
  [k \in Keys |->
     IF p.id = 32 /\ p.data[1] = k
     THEN [recent |-> [any |-> TRUE, sections |-> SectionsOf(p.data[3]), gone |-> FALSE],
           full |-> IF p.data[2] = 1
                    THEN [any |-> TRUE, sections |-> SectionsOf(p.data[3]), gone |-> FALSE]
                    ELSE [h[k].full EXCEPT !.sections = @ \cup SectionsOf(p.data[3])]]
     ELSE IF (p.id = 29 /\ p.data[1] = k) \/ (p.id = 53 /\ p.data[1] # M.dimension)
     THEN [recent |-> [h[k].recent EXCEPT !.gone = TRUE],
           full |-> [h[k].full EXCEPT !.gone = TRUE]]
     ELSE h[k]]

\* An upstream packet arrives and the handlers of track() apply it.
MirrorTracks ==
  \E p \in MirrorPackets :
    /\ fin.n < MaxMirror
    /\ fin.mirror.eid # NoEid \/ p.id = 35
    /\ fin' = [mirror |-> TrackPacket(fin.mirror, p), n |-> fin.n + 1,
               last |-> [id |-> p.id, data |-> p.data, serverbound |-> FALSE],
               before |-> fin.mirror,
               columns |-> ColumnsAfter(fin.columns, fin.mirror, p)]
    /\ UNCHANGED <<bridgeVars, mgrVars, trackVars, loginVars, fout>>

\* mapServerboundPacket() on a vehicle move (0x10) of the attached client; a
\* client is attached only once the join game was tracked.
ServerboundVehicleMove ==
  \E x \in MoveXs :
    /\ fin.n < MaxMirror
    /\ fin.mirror.eid # NoEid
    /\ fin' = [fin EXCEPT !.mirror = VehicleMove(fin.mirror, x), !.n = @ + 1,
                          !.last = [id |-> 16, data |-> <<x>>, serverbound |-> TRUE],
                          !.before = fin.mirror]
    /\ UNCHANGED <<bridgeVars, mgrVars, trackVars, loginVars, fout>>

MirrorInit ==
  /\ InitWith({}, {}, {})
  /\ MgrInitWith({}, {})
  /\ TrackInitWith({}, DefaultAutoDisconnect)
  /\ NoLogin
  /\ fin = [mirror |-> FreshMirror, n |-> 0,
            last |-> [id |-> -1, data |-> <<>>, serverbound |-> FALSE],
            before |-> FreshMirror,
            columns |-> [k \in Keys |-> [recent |-> NoColumn, full |-> NoColumn]]]
  /\ fout = <<>>

MirrorNext == MirrorTracks \/ ServerboundVehicleMove

MirrorSpec == MirrorInit /\ [][MirrorNext]_vars

\* ------------------------------------------------------------ block changes
\* track() on the blocks of one column: chunk data that loads section 0 with
\* three block entities, block changes and multi block changes in it.
BlockXs == {16, 17}
BlockYs == {1, 2, 17}
BlockZs == {0, 1}
BlockIds == {0, 7}
BlockEntities == <<[x |-> 16, y |-> 1, z |-> 0], [x |-> 16, y |-> 2, z |-> 1],
                   [x |-> 17, y |-> 2, z |-> 1]>>

\* Records of a multi block change: value = (x << 4) | z relative to the chunk.
BlockRecords ==
  {<<v, y, b>> : v \in {0, 17}, y \in {1, 17}, b \in BlockIds}

BlockPackets ==
  {[id |-> 35, data |-> WriteInt32(SelfEid) \o <<0, 0, 0, 0>>]}
  \cup {[id |-> 32, data |-> <<k, 1, 1, BlockEntities, <<>>>>] : k \in Keys}
  \cup {[id |-> 11, data |-> <<x, y, z, b>>] :
          x \in BlockXs, y \in BlockYs, z \in BlockZs, b \in BlockIds}
  \cup {[id |-> 16, data |-> <<k, 2>> \o r1 \o r2] :
          k \in Keys, r1 \in BlockRecords, r2 \in BlockRecords}

\* An upstream packet arrives and the handlers of track() apply it.
BlockTracks ==
  \E p \in BlockPackets :
    /\ fin.n < MaxBlockPkts
    /\ fin.mirror.eid # NoEid \/ p.id = 35
    /\ fin' = [mirror |-> TrackPacket(fin.mirror, p), n |-> fin.n + 1, block |-> p]
    /\ UNCHANGED <<bridgeVars, mgrVars, trackVars, loginVars, fout>>

BlockInit ==
  /\ InitWith({}, {}, {})
  /\ MgrInitWith({}, {})
  /\ TrackInitWith({}, DefaultAutoDisconnect)
  /\ NoLogin
  /\ fin = [mirror |-> FreshMirror, n |-> 0, block |-> [id |-> -1, data |-> <<>>]]
  /\ fout = <<>>

BlockSpec == BlockInit /\ [][BlockTracks]_vars

\* ------------------------------------------------------------ the chat log
\* track(), chat message (0xf) and player list header and footer (0x4a), and the
\* chat listener a web socket adds.  fin holds the session's lastChatMessages
\* (every message is the number of its arrival), its queue (its position, 0 for
\* null), the number of messages kept so far and the packet that came last;
\* fout holds what a subscriber was sent: the replay and the messages after it.
ChatCap == 100
ChatKeep == 90

ChatPositions == {0, 1, 2}
QueuePositions == {1, 2}

\* A handler that takes every position for chat.
ChatIgnoredNever(position) == FALSE

\* if (position != 0 && position != 1) return
ChatIgnored(position) == position # 0 /\ position # 1

\* A log that keeps its oldest messages.
TrimOldest(msgs) == IF Len(msgs) > ChatCap THEN SubSeq(msgs, 1, ChatKeep) ELSE msgs

\* if (lastChatMessages.length > 100) lastChatMessages = lastChatMessages.slice(-90)
Trim(msgs) ==
  IF Len(msgs) > ChatCap THEN SubSeq(msgs, Len(msgs) - ChatKeep + 1, Len(msgs)) ELSE msgs

\* A subscription that replays nothing.
ReplayedNothing(msgs) == <<>>

\* connection.lastChatMessages.forEach(chatListener)
Replayed(msgs) == msgs

\* The session receives a chat message packet whose text holds "Connecting to
\* the server" or not.
UpChat(position, connecting) ==
  /\ fin.received < MaxChat
  /\ LET packet == [kind |-> "chat", position |-> position, connecting |-> connecting]
         message == fin.received + 1
     IN IF ChatIgnored(position)
        THEN fin' = [fin EXCEPT !.last = packet] /\ UNCHANGED fout
        ELSE /\ fin' = [lastChatMessages |-> Trim(Append(fin.lastChatMessages, message)),
                        queue |-> IF fin.queue # 0 /\ connecting THEN 0 ELSE fin.queue,
                        received |-> message,
                        last |-> packet]
             /\ fout' = [k \in 1..Len(fout) |-> [fout[k] EXCEPT !.live = Append(@, message)]]
  /\ UNCHANGED <<bridgeVars, mgrVars, trackVars, loginVars>>

\* The session receives a player list footer whose text matches the queue
\* pattern with position q, or does not match (q = 0).
UpFooter(q) ==
  /\ fin' = [fin EXCEPT !.queue = IF q # 0 THEN q ELSE @,
                        !.last = [kind |-> "footer", position |-> q, connecting |-> FALSE]]
  /\ UNCHANGED <<bridgeVars, mgrVars, trackVars, loginVars, fout>>

\* A web socket subscribes to the session's chat.
Subscribe ==
  /\ fout = <<>>
  /\ fout' = <<[at |-> fin.received, replayed |-> Replayed(fin.lastChatMessages), live |-> <<>>]>>
  /\ UNCHANGED <<bridgeVars, mgrVars, trackVars, loginVars, fin>>

ChatInit ==
  /\ InitWith({}, {}, {})
  /\ MgrInitWith({}, {})
  /\ TrackInitWith({}, DefaultAutoDisconnect)
  /\ NoLogin
  /\ fin = [lastChatMessages |-> <<>>, queue |-> 0, received |-> 0,
            last |-> [kind |-> "none", position |-> 0, connecting |-> FALSE]]
  /\ fout = <<>>

ChatNext ==
  \/ \E position \in ChatPositions, connecting \in BOOLEAN : UpChat(position, connecting)
  \/ \E q \in {0} \cup QueuePositions : UpFooter(q)
  \/ Subscribe

ChatSpec == ChatInit /\ [][ChatNext]_vars

\* ------------------------------------------------------- the session table

Profiles == DOMAIN connections
Objects == DOMAIN aw

\* new Connection(profile): the lowest object not yet constructed.
NewConnection ==
  CHOOSE c \in Objects : aw[c] = "unused" /\ \A c2 \in Objects : c2 < c => aw[c2] # "unused"

\* Sockets on which client.end() was called, or whose connect failed, and whose
\* "end" event is still to come with userHasDisconnected unset.
Closing == {c \in Objects : sock[c] = "ending" /\ ~userHasDisconnected[c]}

\* The connect() calls the behaviour may still make, beyond those that pending
\* timers and closing sockets may ask for.
Budget == MaxConnects - op.n - SumOver(timers, Profiles) - Cardinality(Closing)

\* A connect() without the check of the table.
NeverAlreadyConnected(p) == FALSE

\* connect(): connections.has(profile.id)
AlreadyConnected(p) == connections[p] # NoConnection

\* connections.delete(profile.id): the entry of the profile goes, whichever
\* Connection it holds.
Delete(cs, p) == [cs EXCEPT ![p] = NoConnection]

\* A catch block that only rethrows.
CatchKeep(cs, p) == cs

\* connect(): the catch block's connections.delete(profile.id).
CatchDelete(cs, p) == Delete(cs, p)

\* An "end" handler that never reconnects.
EndHandlerNeverSchedules(c) == FALSE

\* An "end" handler that does not look at userHasDisconnected.
EndHandlerIgnoresFlag(c) == autoReconnect[cProfile[c]]

\* connect()'s "end" handler: the condition under which it calls setTimeout.
EndHandlerSchedules(c) == ~userHasDisconnected[c] /\ autoReconnect[cProfile[c]]

\* connect(connections, profile) up to its first await, called by `who`.
Connect(p, who) ==
  /\ op' = [n |-> op.n + 1, kind |-> who, profile |-> p, threw |-> AlreadyConnected(p),
             disc |-> IF who = "api" THEN [op.disc EXCEPT ![p] = FALSE] ELSE op.disc]
  /\ IF AlreadyConnected(p)
     THEN \* throw new Error("Already connected")
          UNCHANGED <<connections, cProfile, aw>>
     ELSE /\ connections' = [connections EXCEPT ![p] = NewConnection]
          /\ cProfile' = [cProfile EXCEPT ![NewConnection] = p]
          /\ aw' = [aw EXCEPT ![NewConnection] = "validate"]
  /\ awaited' = IF who = "timer" THEN [awaited EXCEPT ![p] = FALSE] ELSE awaited

\* POST /api/profiles/:id/connect, or the chat command on an unmapped profile.
ApiConnect(p) ==
  /\ Budget >= 1
  /\ Connect(p, "api")
  /\ UNCHANGED <<bridgeVars, trackVars, pureVars, loginVars, autoReconnect, timers, sock, userHasDisconnected, failed, nDisc>>

\* The setTimeout callback of the "end" handler: connect(...).catch(console.error)
TimerFires(p) ==
  /\ timers[p] > 0
  /\ timers' = [timers EXCEPT ![p] = @ - 1]
  /\ Connect(p, "timer")
  /\ UNCHANGED <<bridgeVars, trackVars, pureVars, loginVars, autoReconnect, sock, userHasDisconnected, failed, nDisc>>

\* A catch block that retries after a while.
CatchRetries(tm, p) == [tm EXCEPT ![p] = @ + 1]

\* connect(): the catch block calls no setTimeout; the timers stay as they are.
CatchTimers(tm, p) == tm

\* connect()'s catch block for object c: delete the entry, rethrow.
Throw(c, why, cs, tm) ==
  /\ connections' = CatchDelete(cs, cProfile[c])
  /\ timers' = CatchTimers(tm, cProfile[c])
  /\ aw' = [aw EXCEPT ![c] = "thrown"]
  /\ failed' = [failed EXCEPT ![c] = why]

\* validateOrRefreshToken(profile) settles.
ValidateDone(c) ==
  /\ aw[c] = "validate"
  /\ \/ /\ aw' = [aw EXCEPT ![c] = "tcp"]       \* on to connection.connect(host, port)
        /\ UNCHANGED <<connections, failed, timers>>
     \/ Throw(c, "token", connections, timers)  \* "Failed to refresh token"
  /\ UNCHANGED <<bridgeVars, trackVars, pureVars, loginVars, autoReconnect, cProfile, sock, userHasDisconnected,
                 awaited, op, nDisc>>

\* this.client.connect(host, port) settles.  Whether a client whose connect failed
\* emits "end", and what end() before the connect does to it, is the library's
\* business: either outcome is allowed.
TcpDone(c) ==
  /\ aw[c] = "tcp"
  /\ \/ /\ sock[c] \in {"idle", "ending"}
        /\ sock' = [sock EXCEPT ![c] = IF @ = "idle" THEN "open" ELSE @]
        /\ aw' = [aw EXCEPT ![c] = "login"]     \* handshake and login start are sent
        /\ UNCHANGED <<connections, failed, timers>>
     \/ /\ Throw(c, "tcp", connections, timers)
        /\ \/ UNCHANGED sock
           \/ /\ sock[c] = "idle"
              /\ userHasDisconnected[c] \/ Budget >= 1
              /\ sock' = [sock EXCEPT ![c] = "ending"]
  /\ UNCHANGED <<bridgeVars, trackVars, pureVars, loginVars, autoReconnect, cProfile, userHasDisconnected,
                 awaited, op, nDisc>>

\* LoginSuccess (0x2) arrives: nextPacket resolves, initialize() runs, connect()
\* returns the connection.
LoginSuccess(c) ==
  /\ aw[c] = "login"
  /\ sock[c] \in {"open", "ending"}
  /\ aw' = [aw EXCEPT ![c] = "returned"]
  /\ UNCHANGED <<bridgeVars, trackVars, pureVars, loginVars, connections, autoReconnect, timers, cProfile, sock,
                 userHasDisconnected, failed, awaited, op, nDisc>>

\* The client of object c emits "end": the handler of connect() runs; a pending
\* nextPacket(0x2, false) rejects and takes connect() into its catch block.
OnEnd(c) ==
  /\ sock' = [sock EXCEPT ![c] = "ended"]
  /\ LET tm == IF EndHandlerSchedules(c) THEN [timers EXCEPT ![cProfile[c]] = @ + 1]
               ELSE timers
     IN IF aw[c] = "login"
        THEN Throw(c, "login", Delete(connections, cProfile[c]), tm)
        ELSE /\ connections' = Delete(connections, cProfile[c])
             /\ timers' = tm
             /\ UNCHANGED <<aw, failed>>
  /\ awaited' = IF aw[c] = "returned" /\ ~userHasDisconnected[c] /\ autoReconnect[cProfile[c]]
                THEN [awaited EXCEPT ![cProfile[c]] = TRUE] ELSE awaited
  /\ UNCHANGED <<bridgeVars, trackVars, pureVars, loginVars, autoReconnect, cProfile, userHasDisconnected, op, nDisc>>

\* The upstream server closes the connection.
UpstreamCloses(c) ==
  /\ sock[c] = "open"
  /\ EndHandlerSchedules(c) => Budget >= 1
  /\ OnEnd(c)

\* A close started by client.end() completes.
SockCloses(c) ==
  /\ sock[c] = "ending"
  /\ OnEnd(c)

\* The upstream sends Disconnect (0x0 during login, 0x1a in play), or health
\* drops below the autoDisconnect threshold: the session calls client.end().
Kicked(c) ==
  /\ sock[c] = "open"
  /\ userHasDisconnected[c] \/ Budget >= 1
  /\ sock' = [sock EXCEPT ![c] = "ending"]
  /\ UNCHANGED <<bridgeVars, trackVars, pureVars, loginVars, connections, autoReconnect, timers, cProfile, aw,
                 userHasDisconnected, failed, awaited, op, nDisc>>

\* disconnect(connections, profile) with the profile in the table:
\* connection.disconnect() sets the flag and calls client.end().
Disconnect(p) ==
  /\ connections[p] # NoConnection
  /\ nDisc[p] < MaxDisconnects
  /\ nDisc' = [nDisc EXCEPT ![p] = @ + 1]
  /\ userHasDisconnected' = [userHasDisconnected EXCEPT ![connections[p]] = TRUE]
  /\ \/ /\ sock[connections[p]] # "idle"
        /\ sock' = [sock EXCEPT ![connections[p]] = IF @ = "open" THEN "ending" ELSE @]
     \/ /\ sock[connections[p]] = "idle"        \* end() on a client not yet connected
        /\ \/ UNCHANGED sock
           \/ sock' = [sock EXCEPT ![connections[p]] = "ending"]
  /\ op' = [op EXCEPT !.disc[p] = TRUE]
  /\ UNCHANGED <<bridgeVars, trackVars, pureVars, loginVars, connections, autoReconnect, timers, cProfile, aw,
                 failed, awaited>>

\* disconnect(connections, profile) with no entry for the profile: nothing is
\* done, a pending reconnect timer included.
DisconnectUnmapped(p) ==
  /\ connections[p] = NoConnection
  /\ nDisc[p] < MaxDisconnects
  /\ nDisc' = [nDisc EXCEPT ![p] = @ + 1]
  /\ op' = [op EXCEPT !.disc[p] = TRUE]
  /\ UNCHANGED <<bridgeVars, trackVars, pureVars, loginVars, connections, autoReconnect, timers, cProfile, aw,
                 sock, userHasDisconnected, failed, awaited>>

\* PUT /api/profiles/:id changes settings.autoReconnect.enabled.
SetAutoReconnect(p) ==
  /\ autoReconnect' = [autoReconnect EXCEPT ![p] = ~@]
  /\ UNCHANGED <<bridgeVars, trackVars, pureVars, loginVars, connections, timers, cProfile, aw, sock,
                 userHasDisconnected, failed, awaited, op, nDisc>>

MgrInit ==
  /\ InitWith({}, {}, {})
  /\ MgrInitWith(1..NumProfiles, 1..MaxConnects)
  /\ TrackInitWith({}, DefaultAutoDisconnect)
  /\ NoLogin
  /\ NoCallInit

\* What the event loop does by itself: due timers and completing closes.
MgrInternal ==
  \/ \E p \in Profiles : TimerFires(p)
  \/ \E c \in Objects : SockCloses(c)

\* What the network does.
MgrNetwork ==
  \/ \E c \in Objects : ValidateDone(c)
  \/ \E c \in Objects : TcpDone(c)
  \/ \E c \in Objects : LoginSuccess(c)
  \/ \E c \in Objects : UpstreamCloses(c)
  \/ \E c \in Objects : Kicked(c)

\* What the users do.
MgrApi ==
  \/ \E p \in Profiles : ApiConnect(p)
  \/ \E p \in Profiles : Disconnect(p)
  \/ \E p \in Profiles : DisconnectUnmapped(p)
  \/ \E p \in Profiles : SetAutoReconnect(p)

MgrNext == MgrInternal \/ MgrNetwork \/ MgrApi

MgrSpec == MgrInit /\ [][MgrNext]_vars

\* Node fires every due timer and completes every close it started.
MgrFairSpec == MgrSpec /\ WF_vars(MgrInternal)

\* ------------------------------------------------------------ the claims

\* The packets of kind k that invocation c wrote to its downstream, in order.
SentBy(c, k) == SelectSeq(out[callD[c]], LAMBDA e : e[1] = c /\ e[2] = k)

\* The whole replay sequence of invocation c.
FullReplay(c) == [i \in 1..ReplayLen |-> <<c, "replay", i>>]

\* Position i of downstream d's stream holds a packet forwarded by the
\* clientboundListener of invocation c.
LiveAt(d, i, c) == out[d][i][1] = c /\ out[d][i][2] = "live"

\* C1: during attach the replay sequence is fully sent to the downstream before
\* any live upstream packet is forwarded to it. Per proxy() invocation c: wherever
\* the downstream's stream holds a packet forwarded by c's clientboundListener,
\* all ReplayLen replay packets of c stand before it, in order, and none after it.
C1_ReplayBeforeLive ==
  \A d \in Downs : \A i \in 1..Len(out[d]) : \A c \in Calls :
    LiveAt(d, i, c) =>
      /\ callD[c] = d
      /\ SelectSeq(SubSeq(out[d], 1, i), LAMBDA e : e[1] = c /\ e[2] = "replay") = FullReplay(c)
      /\ SentBy(c, "replay") = FullReplay(c)

\* A live upstream packet has been forwarded to a downstream after its replay.
C1_Witness ==
  \E d \in Downs : \E i \in 1..Len(out[d]) : \E c \in Calls :
    LiveAt(d, i, c) /\ out[d][i][3] > 0 /\ SentBy(c, "replay") = FullReplay(c)

\* Upstream packet n was forwarded to the downstream of invocation c.
Delivered(c, n) == \E i \in 1..Len(out[callD[c]]) : out[callD[c]][i] = <<c, "live", n>>

\* C2: every upstream packet that arrives while a replay to a downstream is in
\* progress is delivered to that downstream afterwards (unless the downstream
\* has gone): none is lost.
C2_MissedDelivered ==
  \A c \in 1..MaxCalls : \A n \in 1..MaxUp :
    (n \in missed[c]) ~> (Delivered(c, n) \/ down[callD[c]] # "open")

\* The open downstreams that have the bridge's listeners registered on session s.
Attached(s) == {callD[c] : c \in {x \in Calls : callS[x] = s /\ ClientboundListening(x)
                                                 /\ down[callD[x]] = "open"}}

\* C3: each upstream session has at most one attached downstream at any time.
C3_AtMostOneAttached == \A s \in Sessions : Cardinality(Attached(s)) <= 1

\* C4: after a detach (here: the downstream has ended) the session's conn is
\* null and nothing of the bridge is left on that downstream: no clientbound
\* listener, no serverbound listener, no gamemode effect.
C4_EndedDownstreamDetached ==
  \A d \in Downs : down[d] = "ended" =>
    /\ \A s \in Sessions : conn[s] # d
    /\ \A c \in Calls : (pc[c] # "free" /\ callD[c] = d) =>
         ~ClientboundListening(c) /\ ~ServerboundListening(c) /\ ~GamemodeEffectActive(c)

\* C5: if the downstream socket closes while the replay is in flight, the
\* session's conn eventually returns to null.
C5_ClosedDuringReplayDetaches ==
  \A c \in 1..MaxCalls :
    (pc[c] = "replay" /\ down[callD[c]] = "ended") ~> (conn[callS[c]] = NoConn)

\* C6: whenever an upstream session ends while a downstream is attached to it
\* (conn non-null, the replay possibly still being sent), that downstream is
\* eventually ended.
C6_UpstreamEndEndsDownstream ==
  \A s \in 1..NumSessions : \A d \in 1..NumDowns :
    (upEnded[s] /\ conn[s] = d) ~> (down[d] # "open")

\* C7: connect() called for a profile that is already in the table throws
\* "Already connected", leaves the table as it is and opens no upstream
\* connection (no Connection is constructed, no socket changes).
C7_ConnectWhileMappedThrows ==
  [][\A p \in 1..NumProfiles :
       (op'.n = op.n + 1 /\ op'.profile = p /\ connections[p] # NoConnection) =>
         /\ op'.threw
         /\ connections' = connections
         /\ aw' = aw /\ sock' = sock /\ cProfile' = cProfile]_vars

\* connect() was called for a mapped profile and threw.
C7_Witness == op.threw /\ connections[op.profile] # NoConnection

\* C8: when a connect attempt fails (the token is not refreshed, the upstream
\* connect fails, the login fails), connect() throws to its caller and in the
\* state it leaves the table holds no entry for the profile.
C8_FailedConnectThrowsAndUnmaps ==
  [][\A c \in 1..MaxConnects :
       (failed[c] = "no" /\ failed'[c] # "no") =>
         /\ aw'[c] = "thrown"
         /\ connections'[cProfile[c]] = NoConnection]_vars

\* One attempt failed at the token and another during login; the table is empty.
C8_Witness ==
  \E c \in Objects, c2 \in Objects :
    /\ failed[c] = "token" /\ failed[c2] \in {"tcp", "login"}
    /\ aw[c] = "thrown" /\ aw[c2] = "thrown"
    /\ connections[cProfile[c]] = NoConnection

\* C9: when an established session ends with userHasDisconnected false and
\* autoReconnect.enabled true, its table entry is removed in that step, and a
\* new connect() for the same profile is eventually made by the timer.
C9_EndedSessionReconnects ==
  /\ [][\A c \in 1..MaxConnects :
          ( /\ aw[c] = "returned" /\ sock[c] # "ended" /\ sock'[c] = "ended"
            /\ ~userHasDisconnected[c] /\ autoReconnect[cProfile[c]] ) =>
          connections'[cProfile[c]] = NoConnection /\ awaited'[cProfile[c]]]_vars
  /\ \A p \in 1..NumProfiles : awaited[p] ~> ~awaited[p]

\* The first session was established and ended without a disconnect(), and the
\* timer has called connect() again.
C9_Witness ==
  /\ op.kind = "timer" /\ op.n = 2 /\ ~op.threw
  /\ aw[1] = "returned" /\ sock[1] = "ended" /\ ~userHasDisconnected[1]
  /\ cProfile[2] = cProfile[1] /\ aw[2] # "unused"

\* C10: disconnect() on a mapped session sets userHasDisconnected and ends the
\* upstream socket, and the end of a session whose userHasDisconnected is set
\* schedules no reconnect.
C10_DisconnectSuppressesReconnect ==
  [][\A c \in 1..MaxConnects :
       /\ (\E p \in 1..NumProfiles : nDisc'[p] # nDisc[p] /\ connections[p] = c) =>
            userHasDisconnected'[c] /\ sock'[c] # "open"
       /\ (userHasDisconnected[c] /\ sock[c] # "ended" /\ sock'[c] = "ended") =>
            timers' = timers]_vars

\* An established session was disconnected by the user and has ended; no timer
\* is pending for its profile.
C10_Witness ==
  \E c \in Objects :
    /\ aw[c] = "returned" /\ userHasDisconnected[c] /\ sock[c] = "ended"
    /\ nDisc[cProfile[c]] > 0 /\ timers[cProfile[c]] = 0


\* C11: a connect attempt whose token refresh fails schedules no reconnect and
\* causes no further connect attempt, whatever the autoReconnect setting: the
\* failing step leaves the timers as they are and calls connect() for nobody, and
\* nothing that later happens to the failed object sets a timer.
C11_TokenFailureNoRetry ==
  [][\A c \in 1..MaxConnects :
       /\ (failed[c] = "no" /\ failed'[c] = "token") => timers' = timers /\ op' = op
       /\ (failed[c] = "token" /\ sock'[c] # sock[c]) => timers' = timers /\ op' = op]_vars

\* A token refresh failed with auto-reconnect enabled; no timer is pending and
\* connect() was called once.
C11_Witness ==
  \E c \in Objects :
    /\ failed[c] = "token" /\ autoReconnect[cProfile[c]]
    /\ timers[cProfile[c]] = 0 /\ op.n = 1 /\ connections[cProfile[c]] = NoConnection


\* The numbers of the upstream packets of session s that the bridge forwarded to
\* downstream d, in the order in which d received them.
Forwarded(s, d) ==
  SelectSeq(out[d], LAMBDA e : e[2] = "live" /\ e[3] > 0 /\ callS[e[1]] = s)

\* C12: the upstream packets of a session that are forwarded to a downstream
\* reach it in the order in which the upstream sent them, each at most once
\* (the packets are numbered in the order of their arrival).
C12_ForwardedInOrderOnce ==
  \A s \in Sessions : \A d \in Downs :
    \A i \in 1..Len(Forwarded(s, d)) : \A j \in 1..Len(Forwarded(s, d)) :
      i < j => Forwarded(s, d)[i][3] < Forwarded(s, d)[j][3]


\* C13: while healthInitialized is false a health packet does not end the
\* session; once it is true, a health packet whose value is strictly below
\* autoDisconnect.health, with autoDisconnect enabled and conn null, makes the
\* session call client.end() with disconnectReason "Disconnected because of low
\* health".
C13_HealthGate ==
  [][\A s \in OneSession :
       nHealth'[s] # nHealth[s] =>
         /\ ~healthInitialized[s] =>
              upEnding'[s] = upEnding[s] /\ disconnectReason'[s] = disconnectReason[s]
         /\ ( /\ healthInitialized[s] /\ health'[s] < autoDisconnect[s].health
              /\ autoDisconnect[s].enabled /\ conn[s] = NoConn ) =>
              upEnding'[s] /\ disconnectReason'[s] = "Disconnected because of low health"]_vars

\* A second health packet, below the threshold, has ended a session that had no
\* downstream.
C13_Witness ==
  \E s \in Sessions :
    /\ nHealth[s] = 2 /\ health[s] < autoDisconnect[s].health /\ conn[s] = NoConn
    /\ upEnding[s] /\ disconnectReason[s] = "Disconnected because of low health"

\* C14: a health packet does not end the session when autoDisconnect.enabled is
\* false, when the health is at or above autoDisconnect.health, or when conn is
\* non-null and disableWhilePlaying is true.
C14_HealthGateClosed ==
  [][\A s \in OneSession :
       ( /\ nHealth'[s] # nHealth[s]
         /\ \/ ~autoDisconnect[s].enabled
            \/ health'[s] >= autoDisconnect[s].health
            \/ conn[s] # NoConn /\ autoDisconnect[s].disableWhilePlaying ) =>
         upEnding'[s] = upEnding[s] /\ disconnectReason'[s] = disconnectReason[s]]_vars

\* After the first one, a health packet below the threshold reached a session
\* with a downstream set and disableWhilePlaying on, and one at the threshold a
\* session without: neither ended it.
C14_Witness ==
  \E s \in Sessions :
    /\ nHealth[s] = 2 /\ ~upEnding[s] /\ autoDisconnect[s].enabled
    /\ \/ health[s] < autoDisconnect[s].health /\ conn[s] # NoConn
       \/ health[s] = autoDisconnect[s].health /\ conn[s] = NoConn


\* The packets with a rewrite rule: EidPackets, 0x1b, 0x3c, 0x43.
RewriteTable == EidPackets \cup {27, 60, 67}

\* C15: a packet of the listed ids reaches the downstream with its leading
\* VarInt eid replaced by clientEid if it equals the session's eid and unchanged
\* otherwise, all bytes after it identical; likewise 0x1b with its leading int32;
\* a packet whose id has no rewrite rule is delivered unchanged.
C15_LeadingEidRewritten ==
  Len(fout) >= 1 =>
    LET p == fin.packet
        q == fout[1]
    IN /\ q.id = p.id
       /\ p.id \in EidPackets =>
            LET pe == ReadVarInt(p.data, 1)
                qe == ReadVarInt(q.data, 1)
            IN /\ qe.value = (IF pe.value = fin.eid THEN fin.clientEid ELSE pe.value)
               /\ Rest(q.data, qe.offset) = Rest(p.data, pe.offset)
       /\ p.id = 27 =>
            /\ Len(q.data) = Len(p.data)
            /\ ReadInt32(q.data, 1) = (IF ReadInt32(p.data, 1) = fin.eid THEN fin.clientEid
                                       ELSE ReadInt32(p.data, 1))
            /\ Rest(q.data, 5) = Rest(p.data, 5)
       /\ p.id \notin RewriteTable => q = p

\* A packet of the player's own entity was rewritten to a clientEid that takes
\* more bytes, with bytes after the eid.
C15_Witness ==
  /\ Len(fout) >= 1
  /\ fin.packet.id \in EidPackets
  /\ ReadVarInt(fin.packet.data, 1).value = fin.eid
  /\ fin.clientEid = ClientEid /\ fin.eid # ClientEid
  /\ Len(fout[1].data) > Len(fin.packet.data)
  /\ Len(fin.packet.data) > 1

\* C16: for selfEid # clientEid, rewriting a packet with (selfEid, clientEid) and
\* the result with (clientEid, selfEid) gives the packet back, whatever its eid.
C16_RewriteRoundTrip ==
  (Len(fout) = 2 /\ fin.eid # fin.clientEid) => fout[2] = fin.packet


\* The TeleportConfirm packets written to the upstream of session s.
Confirms(s) == SelectSeq(toUp[s], LAMBDA e : e[2] = "TeleportConfirm")

\* C17: for every PlayerPositionAndLook with teleport id t the upstream is sent
\* exactly one TeleportConfirm(t), by the proxy itself, attached or not; a
\* TeleportConfirm or KeepAlive of the downstream is never forwarded; every
\* other packet of a bridged downstream is forwarded by each of its listeners.
C17_TeleportConfirmedOnce ==
  /\ [](\A s \in OneSession :
          /\ Confirms(s) = [t \in 1..upSeq |-> <<NoCall, "TeleportConfirm", t>>]
          /\ \A i \in 1..Len(toUp[s]) : toUp[s][i][2] # "KeepAlive")
  /\ [][downSeq' # downSeq =>
          \A s \in OneSession :
            toUp'[s] = toUp[s] \o
               (IF fin'[2] = "Other"
                THEN [i \in 1..Len(ServerboundListeners(s, fin'[1])) |->
                        <<ServerboundListeners(s, fin'[1])[i], "Other", downSeq'>>]
                ELSE <<>>)]_vars

\* With the bridge live, a teleport was confirmed by the proxy and forwarded to
\* the downstream, whose own TeleportConfirm was then dropped.
C17_Witness ==
  \E s \in Sessions : \E c \in Calls :
    /\ pc[c] = "live" /\ callS[c] = s
    /\ toUp[s] = <<<<NoCall, "TeleportConfirm", 1>>>>
    /\ Delivered(c, 1)
    /\ fin = <<callD[c], "TeleportConfirm">>
    /\ downSeq = 1

\* The ids of the replay's packets by what the order is about.
SpawnIds == {0, 1, 3, 4, 5}
EntityIds == SpawnIds \cup {60, 78, 63}
LinkIds == {57, 67, 61}

\* C18: the replay starts with the join game packet (or the two respawn packets),
\* the one player position and look comes before every spawn packet and every
\* chunk, every entity packet comes before the camera, passenger and attach
\* packets, and nothing but chunk data follows a chunk data packet.
C18_ReplayOrder ==
  fout # <<>> =>
    LET ps == fout[1].packets
        At(S) == {i \in 1..Len(ps) : ps[i].id \in S}
    IN /\ IF fout[1].respawn THEN ps[1].id = 53 /\ ps[2].id = 53 /\ At({35}) = {}
          ELSE ps[1].id = 35 /\ At({35, 53}) = {1}
       /\ Cardinality(At({47})) = 1
       /\ \A i \in At({47}) : \A j \in At(SpawnIds \cup {32}) : i < j
       /\ \A i \in At(EntityIds) : \A j \in At(LinkIds) : i < j
       /\ \A i \in At({32}) : \A j \in i..Len(ps) : ps[j].id = 32

\* A replay with a spawned entity, a camera and a chunk.
C18_Witness ==
  /\ fout # <<>>
  /\ \A k \in {47, 57, 32} : \E i \in 1..Len(fout[1].packets) : fout[1].packets[i].id = k
  /\ \E i \in 1..Len(fout[1].packets) : fout[1].packets[i].id \in SpawnIds

\* C19: the packets of a join replay, applied to a fresh mirror, make a mirror
\* that holds what the replayed mirror holds, with the downstream's eid in the
\* place of the session's.
C19_ReplayIdempotent ==
  (fout # <<>> /\ ~fout[1].respawn) =>
    SameMirror(fout[1].mirror, Remap(fin.mirror, ClientEid))

\* C20 as stated: the join game packet of the replay carries gamemode & 0x7.
C20_JoinGameMasked ==
  (fout # <<>> /\ ~fout[1].respawn) =>
    /\ fout[1].packets[1].id = 35
    /\ fout[1].packets[1].data[5] = fin.mirror.gamemode % 8

\* C20 as amended: the respawn packet that leads back into the mirrored
\* dimension carries gamemode & 0x7, and the join game packet of a replay
\* carries the mirrored gamemode as it is.
C20_RespawnMasked ==
  fout # <<>> =>
    IF fout[1].respawn
    THEN /\ fout[1].packets[2].id = 53
         /\ fout[1].packets[2].data[3] = fin.mirror.gamemode % 8
    ELSE /\ fout[1].packets[1].id = 35
         /\ fout[1].packets[1].data[5] = fin.mirror.gamemode

\* A respawn replay of a mirror whose gamemode has bit 3 set.
C20_Witness ==
  /\ fout # <<>>
  /\ fout[1].respawn
  /\ fin.mirror.gamemode = 11
  /\ fout[1].packets[2].data[3] = 3

\* Downstream d has sent a packet with this id.
WasSent(d, i) == \E k \in 1..Len(login[d].sent) : login[d].sent[k].id = i

\* Downstream d has never reached proxy() and no session holds it.
NeverAttached(d) ==
  /\ \A c \in Calls : pc[c] # "free" => callD[c] # d
  /\ \A s \in Sessions : conn[s] # d
  /\ unproxyLast[d] = NoCall

\* C21: a login handshake with a protocol other than 340 is answered with one
\* Disconnect, whose translate key is outdated_client below 340 and
\* outdated_server above; the connection is ended, no LoginSuccess is sent, the
\* downstream is never attached, and the step leaves every session, the session
\* table and the profiles as they were.
C21_OutdatedProtocolRejected ==
  /\ [](\A d \in DOMAIN login :
          (login[d].nextState = "Login" /\ login[d].protocol # 340) =>
            /\ login[d].sent =
                 <<[id |-> "Disconnect",
                    arg |-> IF login[d].protocol < 340
                            THEN "multiplayer.disconnect.outdated_client"
                            ELSE "multiplayer.disconnect.outdated_server"]>>
            /\ down[d] # "open"
            /\ NeverAttached(d))
  /\ [][\A d \in DOMAIN login :
          (login[d].phase = "handshake" /\ login'[d].nextState = "Login"
             /\ login'[d].protocol # 340) =>
            UNCHANGED <<conn, eid, gamemode, upEnded, upSeq, callS, callD, pc, idx, missed,
                        unproxyLast, out, toUp, mgrVars, trackVars, store>>]_vars

\* A client of protocol 339 was turned away; the session has joined its server.
C21_Witness ==
  \E d \in DOMAIN login : \E s \in Sessions :
    /\ login[d].nextState = "Login" /\ login[d].protocol = 339
    /\ WasSent(d, "Disconnect")
    /\ down[d] = "ended"
    /\ eid[s] # NoEid

\* Some profile of the store has this name and an owner.
OwnedProfileNamed(st, username) ==
  \E k \in 1..Len(st.profiles) :
    st.profiles[k].name = username /\ st.profiles[k].id \in st.owned

\* C22: the login success is sent only when some profile has the username for
\* its name and a user owns that profile; when there is none the client is sent
\* 'You need to connect via one of your profiles' and ended, and a client that
\* was sent no login success never reaches the play phase nor a session.
C22_LoginNeedsOwnedProfile ==
  /\ [](\A d \in DOMAIN login :
          ~WasSent(d, "LoginSuccess") =>
            /\ login[d].phase \notin {"loginSuccess", "joinGame", "play"}
            /\ NeverAttached(d))
  /\ [][\A d \in DOMAIN login :
          /\ (~WasSent(d, "LoginSuccess") /\ WasSent(d, "LoginSuccess")') =>
               OwnedProfileNamed(store, login[d].username)
          /\ (login[d].phase = "encrypting" /\ login'[d] # login[d]
                /\ ~OwnedProfileNamed(store, login[d].username)) =>
               /\ login'[d].sent =
                    <<[id |-> "Disconnect",
                       arg |-> "You need to connect via one of your profiles"]>>
               /\ login'[d].phase = "ended"
               /\ down'[d] = "ending"]_vars

\* A client was turned away whose username names a profile that nobody owns.
C22_Witness ==
  \E d \in DOMAIN login :
    /\ login[d].sent = <<[id |-> "Disconnect",
                          arg |-> "You need to connect via one of your profiles"]>>
    /\ FindProfile(store, login[d].username) # 0
    /\ ~OwnedProfileNamed(store, login[d].username)
    /\ down[d] = "ended"

\* C23: lastChatMessages never holds more than 100 messages; a message that
\* makes it 101 long leaves the 90 most recent messages, in their order, and
\* any other message is added at its end.
C23_ChatLogBounded ==
  /\ [](Len(fin.lastChatMessages) <= 100)
  /\ [][fin'.received = fin.received + 1 =>
          LET pushed == Append(fin.lastChatMessages, fin'.received)
          IN IF Len(pushed) > 100
             THEN fin'.lastChatMessages = [i \in 1..90 |-> pushed[Len(pushed) - 90 + i]]
             ELSE fin'.lastChatMessages = pushed]_vars

\* The 101st message has just been pushed.
C23_Witness == fin.received = 101 /\ Len(fin.lastChatMessages) = 90

\* The k most recent of the first m messages, in order.
LastMessages(m, k) == [i \in 1..k |-> m - k + i]

\* C24 as stated: a subscriber is replayed the last 100 messages the session
\* has received, or all of them if there were fewer.
C24_ReplaysLastHundred ==
  fout # <<>> =>
    fout[1].replayed = LastMessages(fout[1].at, IF fout[1].at < 100 THEN fout[1].at ELSE 100)

\* C24 as amended: a subscriber is replayed the messages lastChatMessages holds,
\* in order: all the session has received if they are at most 100, and else
\* the most recent 90 to 100 of them (90 after a trim, one more with each
\* message up to the next trim); the messages that follow reach it in order.
C24_ReplaysChatLog ==
  fout # <<>> =>
    LET m == fout[1].at
        k == IF m <= 100 THEN m ELSE 90 + ((m - 101) % 11)
    IN /\ fout[1].replayed = LastMessages(m, k)
       /\ fout[1].live = [i \in 1..(fin.received - m) |-> m + i]

\* A subscription right after the trim that the 101st message made.
C24_Witness ==
  /\ fout # <<>>
  /\ fout[1].at = 101
  /\ Len(fout[1].replayed) = 90
  /\ fout[1].live = <<102>>

\* C25 as stated: after a chat message packet whose text holds "Connecting to
\* the server", queue is null, whatever the packet's position.
C25_ConnectingClearsQueue ==
  (fin.last.kind = "chat" /\ fin.last.connecting) => fin.queue = 0

\* C25 as amended: after a chat message packet of position 0 or 1 whose text
\* holds "Connecting to the server", queue is null; a chat message packet of
\* any other position leaves queue as it was.
C25_ChatConnectingClearsQueue ==
  /\ []((fin.last.kind = "chat" /\ fin.last.connecting /\ fin.last.position \in {0, 1})
          => fin.queue = 0)
  /\ [][(fin'.last.kind = "chat" /\ fin'.last.position \notin {0, 1} /\ fin' # fin)
          => (fin'.queue = fin.queue /\ fin'.received = fin.received)]_vars

\* The queue was set and a chat message of position 1 has cleared it.
C25_Witness ==
  /\ fin.last.kind = "chat" /\ fin.last.connecting /\ fin.last.position = 1
  /\ fin.queue = 0
  /\ fin.received = 1

\* C26: recovery is local to each session: the end of one profile's session,
\* and the close of the downstreams that its endListener ends, leave the eid,
\* gamemode and downstream attachment of every other session unchanged.
C26_RecoveryLocal ==
  [][/\ \A s \in DOMAIN upEnded :
          (upEnded'[s] /\ ~upEnded[s]) =>
            \A t \in DOMAIN conn \ {s} :
              conn'[t] = conn[t] /\ eid'[t] = eid[t] /\ gamemode'[t] = gamemode[t]
     /\ \A d \in DOMAIN down :
          (down[d] = "ending" /\ down'[d] = "ended") =>
            \A t \in DOMAIN conn :
              (~upEnded[t] /\ conn[t] # NoConn /\ conn[t] # d) => conn'[t] = conn[t]]_vars

\* C27: once a join game was processed, the entities map holds an entity under
\* the mirror's eid and it is of type player, whatever packets follow.
C27_PlayerEntityKept ==
  ("columns" \in DOMAIN fin /\ fin.mirror.eid # NoEid) =>
    /\ HasEntity(fin.mirror.entities, fin.mirror.eid)
    /\ GetEntity(fin.mirror.entities, fin.mirror.eid).type = "player"

\* Some entity's passengers contain the mirror's own eid.
IsPassenger(M) ==
  \E i \in 1..Len(M.entities) : M.eid \in M.entities[i].passengers

\* C28: ridingEid is non-null exactly when some entity's passengers contain the
\* mirror's own eid.
C28_RidingIffPassenger ==
  "mirror" \in DOMAIN fin => (fin.mirror.ridingEid # 0 <=> IsPassenger(fin.mirror))

\* C29: a vehicle move (clientbound 0x29 or serverbound 0x10) processed while
\* the player is a passenger of entity v moves the mirror's player and entity v
\* to the packet's position.
C29_VehicleMoveMovesVehicle ==
  [][\A v \in MirrorEids :
       ( /\ "columns" \in DOMAIN fin
         /\ fin'.n = fin.n + 1
         /\ fin'.last.id \in {41, 16}
         /\ v # fin.mirror.eid
         /\ HasEntity(fin.mirror.entities, v)
         /\ fin.mirror.eid \in GetEntity(fin.mirror.entities, v).passengers )
       => /\ fin'.mirror.playerX = fin'.last.data[1]
          /\ GetEntity(fin'.mirror.entities, v).x = fin'.last.data[1]]_vars

\* The sections of column k that are not null.
SectionsAt(M, k) == IF HasChunk(M.chunks, k) THEN M.chunks[k].sections ELSE {}

\* C30, as stated: section s of a column is non-null exactly when it was
\* present in the most recent chunk data for the column and the column was not
\* unloaded since.
C30_SectionsOfMostRecent ==
  "columns" \in DOMAIN fin =>
    \A k \in Keys : \A s \in 0..15 :
      s \in SectionsAt(fin.mirror, k) <=>
        /\ fin.columns[k].recent.any
        /\ ~fin.columns[k].recent.gone
        /\ s \in fin.columns[k].recent.sections

\* C30, amended: section s of a column is non-null exactly when it was present
\* in the most recent full chunk data for the column or in a partial chunk data
\* after that one, and the column was not unloaded, nor dropped by a respawn
\* into another dimension, since that full chunk data.
C30_SectionsSinceFullChunk ==
  "columns" \in DOMAIN fin =>
    \A k \in Keys : \A s \in 0..15 :
      s \in SectionsAt(fin.mirror, k) <=>
        /\ fin.columns[k].full.any
        /\ ~fin.columns[k].full.gone
        /\ s \in fin.columns[k].full.sections

\* A partial chunk data was applied to a loaded column and added a section.
C30_Witness ==
  /\ "columns" \in DOMAIN fin
  /\ fin.last.id = 32 /\ fin.last.data[2] = 0
  /\ SectionsAt(fin.mirror, fin.last.data[1]) = {0, 1}

\* The block entities of the chunk that owns the block at x.
BlockEntitiesAt(M, x) ==
  IF HasChunk(M.chunks, x \div 16) THEN M.chunks[x \div 16].blockEntities ELSE <<>>

\* C31: a block change that sets the block at p, in a loaded section, to id 0
\* removes from the owning chunk exactly the block entities at p and leaves the
\* others unchanged; a block change with another id leaves blockEntities
\* unchanged.
C31_BlockChangePurgesAtPosition ==
  [][( /\ "block" \in DOMAIN fin
       /\ fin'.n = fin.n + 1
       /\ fin'.block.id = 11
       /\ HasChunk(fin.mirror.chunks, fin'.block.data[1] \div 16)
       /\ (fin'.block.data[2] \div 16)
            \in fin.mirror.chunks[fin'.block.data[1] \div 16].sections )
     => LET d == fin'.block.data
        IN BlockEntitiesAt(fin'.mirror, d[1]) =
             IF d[4] = 0
             THEN SelectSeq(BlockEntitiesAt(fin.mirror, d[1]),
                            LAMBDA b : ~(b.x = d[1] /\ b.y = d[2] /\ b.z = d[3]))
             ELSE BlockEntitiesAt(fin.mirror, d[1])]_vars

\* C32: after a multi block change, every record whose section is loaded has
\* been written: the block at its place is the record's block, unless a later
\* record of the packet wrote the same place.
C32_EveryRecordApplied ==
  [][( /\ "block" \in DOMAIN fin
       /\ fin'.n = fin.n + 1
       /\ fin'.block.id = 16
       /\ HasChunk(fin.mirror.chunks, fin'.block.data[1]) )
     => LET recs == RecordsOf(fin'.block.data)
            before == fin.mirror.chunks[fin'.block.data[1]]
            after == fin'.mirror.chunks[fin'.block.data[1]]
            KeyOf(r) == <<r.y \div 16, (r.y % 16) * 256 + (r.value % 16) * 16 + r.value \div 16>>
        IN \A i \in DOMAIN recs :
             ( /\ (recs[i].y \div 16) \in before.sections
               /\ \A j \in DOMAIN recs : j > i => KeyOf(recs[j]) # KeyOf(recs[i]) )
             => BlockAt(after.blocks, KeyOf(recs[i])) = recs[i].block]_vars

\* C33: a respawn into another dimension clears all chunks, all maps and all
\* entities but the local player's, a respawn into the same dimension leaves
\* them unchanged; both set dimension, difficulty, gamemode and levelType to the
\* packet's values.
C33_RespawnClears ==
  ("columns" \in DOMAIN fin /\ fin.last.id = 53) =>
    LET d == fin.last.data
        B == fin.before
        M == fin.mirror
    IN /\ M.dimension = d[1] /\ M.difficulty = d[2] /\ M.gamemode = d[3] /\ M.levelType = d[4]
       /\ IF d[1] # B.dimension
          THEN /\ M.chunks = <<>>
               /\ M.maps = {}
               /\ \A i \in 1..Len(M.entities) : M.entities[i].eid = B.eid
               /\ HasEntity(B.entities, B.eid) => M.entities = <<GetEntity(B.entities, B.eid)>>
          ELSE M.chunks = B.chunks /\ M.maps = B.maps /\ M.entities = B.entities

\* A respawn into another dimension dropped a chunk, a map and another entity
\* and changed difficulty, gamemode and levelType.
C33_Witness ==
  /\ "columns" \in DOMAIN fin
  /\ fin.last.id = 53
  /\ fin.last.data[1] # fin.before.dimension
  /\ fin.before.chunks # <<>> /\ fin.before.maps # {}
  /\ Len(fin.before.entities) = 2 /\ HasEntity(fin.before.entities, fin.before.eid)
  /\ fin.mirror.difficulty # fin.before.difficulty
  /\ fin.mirror.gamemode # fin.before.gamemode
  /\ fin.mirror.levelType # fin.before.levelType

\* The gamemode packets that invocation c sent to its downstream in this step.
NewGamemodePackets(c) ==
  {i \in (Len(out[callD[c]]) + 1)..Len(out'[callD[c]]) :
     out'[callD[c]][i][1] = c /\ out'[callD[c]][i][2] = "gamemode"}

\* C34: while a downstream is attached through a live proxy(), every change of
\* the session's gamemode sends it one gamemode packet with the new value;
\* once that proxy() is detached, a change of the gamemode sends it none.
C34_GamemodeWhileAttached ==
  [][\A c \in DOMAIN pc :
       (pc[c] # "free" /\ gamemode'[callS[c]] # gamemode[callS[c]]) =>
         /\ (pc[c] = "live" /\ down[callD[c]] = "open") =>
              /\ Cardinality(NewGamemodePackets(c)) = 1
              /\ \A i \in NewGamemodePackets(c) :
                   out'[callD[c]][i][3] = gamemode'[callS[c]]
         /\ pc[c] = "detached" => NewGamemodePackets(c) = {}]_vars

\* The gamemode of a session changed after one downstream was detached from it
\* while it stays open, and while another is attached to it: the second one
\* holds the packet of the change.
C34_Witness ==
  /\ \E c \in DOMAIN pc : pc[c] = "detached" /\ down[callD[c]] = "open"
                          /\ gamemode[callS[c]] = 1
  /\ \E c \in DOMAIN pc :
       /\ pc[c] = "live"
       /\ gamemode[callS[c]] = 1
       /\ \E i \in 1..Len(out[callD[c]]) :
            /\ out[callD[c]][i] = <<c, "gamemode", 1>>
            /\ \E j \in 1..(i - 1) : out[callD[c]][j] = <<c, "gamemode", 0>>

\* C35: for each profile at most one upstream socket is open, the table entry
\* of the profile refers to its Connection, and the "end" handler or the catch
\* block of an older Connection never removes the entry of a newer one.
C35_EntryIsTheLiveSession ==
  /\ [](\A c \in DOMAIN sock :
          sock[c] = "open" =>
            /\ connections[cProfile[c]] = c
            /\ \A c2 \in DOMAIN sock \ {c} : cProfile[c2] = cProfile[c] => sock[c2] # "open")
  /\ [][\A c \in DOMAIN sock :
          ( /\ (sock'[c] = "ended" /\ sock[c] # "ended") \/ (failed'[c] # failed[c])
            /\ connections[cProfile[c]] # NoConnection
            /\ connections[cProfile[c]] # c )
          => connections'[cProfile[c]] = connections[cProfile[c]]]_vars

\* C37: once disconnect(profile) was called, no upstream connection is opened
\* for the profile before connect(profile) is called again by a user: a
\* reconnect timer does not open one (op.disc tells that disconnect() was called
\* since the last connect() by a user).
C37_DisconnectStopsReconnect ==
  [][\A p \in DOMAIN connections :
       (op'.n = op.n + 1 /\ op'.profile = p /\ op'.kind = "timer" /\ ~op'.threw)
         => ~op.disc[p]]_vars

\* C38: a connect() attempt that fails during login throws to its caller and
\* schedules no reconnect, whatever autoReconnect.enabled is.
C38_LoginFailureNoRetry ==
  [][\A c \in DOMAIN failed :
       (failed[c] = "no" /\ failed'[c] = "login") =>
         aw'[c] = "thrown" /\ timers' = timers]_vars

\* C36: a downstream is conn of at most one session at any time, also when it
\* sends a second /connect while the proxy() call of its first one is still
\* waiting for the JoinGame or replaying.
C36_DownstreamOnOneSession ==
  \A d \in Downs : Cardinality({s \in Sessions : conn[s] = d}) <= 1

\* C39: a JoinGame (0x23) that the clientbound listener delivers to a downstream
\* of the listener (whose clientEid is ClientEid) carries clientEid, whatever
\* eid upstream has put in it.
C39_JoinGameCarriesClientEid ==
  (Len(fout) >= 1 /\ fin.packet.id = 35 /\ fin.clientEid = ClientEid)
    => ReadInt32(fout[1].data, 1) = ClientEid

\* C40: a /connect or /disconnect chat message of a downstream is never written
\* to an upstream session as a chat packet.
C40_CommandNotForwarded ==
  \A s \in Sessions : \A i \in 1..Len(toUp[s]) : toUp[s][i][2] # "ConnectCommand"

====
